---- MODULE Spec2Model ----
(***************************************************************************)
(* GRASP: counterfactual regret minimisation (CFR) on Kuhn poker.          *)
(*                                                                         *)
(* The module models                                                       *)
(*   - Trainer::Node        (src/GRASP/Trainer/Node.cpp, Node.hpp),        *)
(*   - Kuhn::Game           (src/Game/Kuhn/Game.cpp),                      *)
(*   - Trainer::Trainer     (src/GRASP/Trainer/Trainer.cpp),               *)
(*   - Agent::CFRAgent      (src/RegretMinimization/Agent/CFRAgent.cpp).   *)
(*                                                                         *)
(* A C++ double is modelled as an exact rational <<n, d>> in lowest terms  *)
(* with d > 0: rounding is not modelled, every other step of the           *)
(* arithmetic is.  An array double[A] is a function on 0 .. A-1.           *)
(***************************************************************************)
EXTENDS Integers, Sequences, FiniteSets, TLC

VARIABLES
    tbl,        \* table harness: one Node under test
    tblLast,    \* table harness: the last member function called on tbl
    tblPrevAvg, \* table harness: the arrays the last two averageStrategy() calls returned
    tblOps,     \* table harness: number of calls made so far
    gm,         \* game harness: one Kuhn::Game under test
    gmSegv,     \* game harness: the process has faulted
    gmLast,     \* game harness: the last member function called on gm
    gmHistory,  \* game harness: the players' actions taken since the deal
    gmSeen,     \* game harness: a decision state of gm observed earlier
    tr,         \* training: the Trainer running train()
    tr0,        \* training: the Trainer as constructed
    tr2,        \* training: the Trainer a first run of the same program left
    runNo,      \* training: 1 in the first run of the program, 2 in the second
    cli,        \* training: the options of the command line of src/GRASP/main.cpp
    ev          \* evaluation: the locals of main() of src/Game/main.cpp

tblVars == <<tbl, tblLast, tblPrevAvg, tblOps>>
gmVars  == <<gm, gmSegv, gmLast, gmHistory, gmSeen>>
trVars  == <<tr, tr0, tr2, runNo, cli>>
vars    == <<tblVars, gmVars, trVars, ev>>
notTbl  == <<gmVars, trVars, ev>>
notGm   == <<tblVars, trVars, ev>>
notTr   == <<tblVars, gmVars, ev>>
notEv   == <<tblVars, gmVars, trVars>>

\* bounds of the table harness
MaxActions  == 3
MaxTableOps == 4

\* bounds of the training runs: train(iterations) for iterations in
\* 0 .. MaxIterations, seeds 0 .. NumSeeds - 1
MaxIterations == 2
NumSeeds      == 4

\* bound of the evaluation: the number of non-uniform strategy vectors that
\* the strategy files are built from
NumSkewed     == 3

(***************************************************************************)
(* double                                                                  *)
(***************************************************************************)
Abs(x) == IF x < 0 THEN -x ELSE x

RECURSIVE GCD(_, _)
GCD(a, b) == IF b = 0 THEN a ELSE GCD(b, a % b)

\* the double n/d, d # 0
Frac(n, d) ==
    LET s == IF d < 0 THEN -1 ELSE 1
        g == GCD(Abs(n), Abs(d))
    IN  IF n = 0 THEN <<0, 1>> ELSE <<(s * n) \div g, (s * d) \div g>>

Zero == <<0, 1>>
One  == <<1, 1>>
Dbl(k) == <<k, 1>>

RAdd(x, y) == Frac(x[1] * y[2] + y[1] * x[2], x[2] * y[2])
RSub(x, y) == Frac(x[1] * y[2] - y[1] * x[2], x[2] * y[2])
RMul(x, y) == Frac(x[1] * y[1], x[2] * y[2])
RDiv(x, y) == Frac(x[1] * y[2], x[2] * y[1])
RNeg(x)    == <<-x[1], x[2]>>
RLt(x, y)  == x[1] * y[2] < y[1] * x[2]
RLe(x, y)  == x[1] * y[2] <= y[1] * x[2]
RPos(x)    == x[1] > 0

\* sum of v[0] .. v[n-1], accumulated in index order as the loops do
RECURSIVE SumTo(_, _)
SumTo(v, n) == IF n = 0 THEN Zero ELSE RAdd(SumTo(v, n - 1), v[n - 1])

Uniform(A) == [a \in 0 .. A - 1 |-> Frac(1, A)]

(***************************************************************************)
(* Trainer::Node  (src/GRASP/Trainer/Node.cpp)                             *)
(***************************************************************************)
\* uint8_t mActionNum
Uint8(x) == x % 256

\* Node::Node(int actionNum) with mAverageStrategy zeroed like the other sums
\* and mCurrentStrategy zeroed too (a slip the constructor does not make)
Node_zeroCurrent(actionNum) ==
    [ mActionNum          |-> Uint8(actionNum),
      mRegretSum          |-> [a \in 0 .. actionNum - 1 |-> Zero],
      mCurrentStrategy    |-> [a \in 0 .. actionNum - 1 |-> Zero],
      mStrategySum        |-> [a \in 0 .. actionNum - 1 |-> Zero],
      mAverageStrategy    |-> [a \in 0 .. actionNum - 1 |-> Zero],
      alreadyCalculated   |-> FALSE,
      strategyNeedsUpdate |-> FALSE ]

\* Node::Node(int actionNum)
Node(actionNum) ==
    [ mActionNum          |-> Uint8(actionNum),
      mRegretSum          |-> [a \in 0 .. actionNum - 1 |-> Zero],
      mCurrentStrategy    |-> [a \in 0 .. actionNum - 1 |-> Frac(1, actionNum)],
      mStrategySum        |-> [a \in 0 .. actionNum - 1 |-> Zero],
      mAverageStrategy    |-> [a \in 0 .. actionNum - 1 |-> Zero],
      alreadyCalculated   |-> FALSE,
      strategyNeedsUpdate |-> FALSE ]

\* const double *Node::strategy(): a pointer to mCurrentStrategy, no derivation
strategy(n) == n.mCurrentStrategy

\* uint8_t Node::actionNum() const
actionNum(n) == n.mActionNum

\* double Node::regretSum(int chooseAction) const
regretSum(n, chooseAction) == n.mRegretSum[chooseAction]

\* void Node::regretSum(int chooseAction, double value)
regretSumSet(n, chooseAction, value) ==
    [n EXCEPT !.mRegretSum[chooseAction] = value,
              !.strategyNeedsUpdate = TRUE]

\* Node::updateStrategy() without the clamp of negative regrets
updateStrategy_noClamp(n) ==
    IF ~n.strategyNeedsUpdate THEN n
    ELSE LET A    == n.mActionNum
             norm == SumTo(n.mRegretSum, A)
         IN  [n EXCEPT !.mCurrentStrategy =
                 [a \in 0 .. A - 1 |->
                     IF RPos(norm) THEN RDiv(n.mRegretSum[a], norm)
                     ELSE Frac(1, A)]]

\* void Node::updateStrategy(): strategyNeedsUpdate is read and never written
updateStrategy(n) ==
    IF ~n.strategyNeedsUpdate THEN n
    ELSE LET A       == n.mActionNum
             clamped == [a \in 0 .. A - 1 |->
                            IF RPos(n.mRegretSum[a]) THEN n.mRegretSum[a] ELSE Zero]
             normalizingSum == SumTo(clamped, A)
         IN  [n EXCEPT !.mCurrentStrategy =
                 [a \in 0 .. A - 1 |->
                     IF RPos(normalizingSum) THEN RDiv(clamped[a], normalizingSum)
                     ELSE Frac(1, A)]]

\* Node::strategySum(strategy, realizationWeight) without the cache reset
strategySum_keepCache(n, strat, realizationWeight) ==
    [n EXCEPT !.mStrategySum =
        [a \in 0 .. n.mActionNum - 1 |->
            RAdd(n.mStrategySum[a], RMul(realizationWeight, strat[a]))]]

\* void Node::strategySum(const double *strategy, double realizationWeight)
strategySum(n, strat, realizationWeight) ==
    [n EXCEPT !.mStrategySum =
        [a \in 0 .. n.mActionNum - 1 |->
            RAdd(n.mStrategySum[a], RMul(realizationWeight, strat[a]))],
              !.alreadyCalculated = FALSE]

\* void Node::calcAverageStrategy()
calcAverageStrategy(n) ==
    IF n.alreadyCalculated THEN n
    ELSE LET A == n.mActionNum
             normalizingSum == SumTo(n.mStrategySum, A)
         IN  [n EXCEPT !.mAverageStrategy =
                 [a \in 0 .. A - 1 |->
                     IF RPos(normalizingSum)
                     THEN RDiv(n.mStrategySum[a], normalizingSum)
                     ELSE Frac(1, A)],
                       !.alreadyCalculated = TRUE]

\* const double *Node::averageStrategy(): the node after the call; the array
\* returned is its mAverageStrategy
averageStrategy(n) == IF ~n.alreadyCalculated THEN calcAverageStrategy(n) ELSE n


(***************************************************************************)
(* std::mt19937 outputs and their conversions                              *)
(*                                                                         *)
(* An output w of the generator is a 32-bit unsigned value, written here   *)
(* <<hi, lo>> with w = hi * 2^31 + lo, hi \in {0,1}, 0 <= lo < 2^31.       *)
(***************************************************************************)
\* int(randomGenerator()): the 32-bit two's complement reading of the output
ToInt(w) == IF w[1] = 1 THEN (w[2] - 2147483647) - 1 ELSE w[2]

\* A uint64_t u is written [high, low] with u = high * 2^32 + low, low a
\* 32-bit value written as the generator's outputs are.
U64(high, low) == [high |-> high, low |-> low]

\* int(u) for a uint64_t u: the 32-bit two's complement reading of the low
\* half
IntOfU64(u) == ToInt(u.low)

\* the uint64_t of a natural number below 2^31
U64Of(n) == U64(0, <<0, n>>)

\* the C++ operator % on int operands with b > 0: the sign follows the dividend
CRem(a, b) == IF a % b = 0 THEN 0 ELSE IF a < 0 THEN (a % b) - b ELSE a % b

\* representative generator outputs: both signs, every remainder by 2 and by 3
RngWords ==
    { <<0, 0>>, <<0, 1>>, <<0, 2>>, <<0, 2147483647>>,
      <<1, 0>>, <<1, 1>>, <<1, 2>>, <<1, 2147483647>> }
GarbageInts == {1, 32765}
UBOutcomes  == {[segv |-> TRUE, val |-> 0]}
                 \cup {[segv |-> FALSE, val |-> x] : x \in GarbageInts}


(***************************************************************************)
(* Kuhn::Game  (src/Game/Kuhn/Game.cpp)                                    *)
(*                                                                         *)
(* mInfoSets[i] is kept as the bytes 0 .. turnIndex, the ones the copy     *)
(* constructor copies and infoSetStr reads: byte k is mInfoSets[i][k + 1]. *)
(***************************************************************************)
numPlayers == 2
numCards   == numPlayers + 1
PASS       == 0
BET        == 1
ActionNUM  == 2

RECURSIVE Factorial(_)
Factorial(n) == IF n <= 1 THEN 1 ELSE n * Factorial(n - 1)

\* constexpr int ChanceActionNum()
ChanceActionNum == Factorial(numCards)

Players == 0 .. numPlayers - 1
\* the content of an int that was never written
Indeterminate == -1

\* Game::Game(std::mt19937 &generator): playerCards is left uninitialised
Game ==
    [ playerCards        |-> [i \in 0 .. numCards - 1 |-> Indeterminate],
      playerPayoff       |-> [i \in Players |-> 0],
      currentPlayerIndex |-> -1,
      chanceProb         |-> Zero,
      firstBetTurnIndex  |-> -1,
      playerBetNumber    |-> 0,
      turnIndex          |-> 0,
      gameOver           |-> FALSE,
      mInfoSets          |-> [i \in Players |-> <<0>>] ]

Swap(cards, i, j) == [cards EXCEPT ![i] = cards[j], ![j] = cards[i]]

\* the state shared by the end of resetGame(true) and of a chance takeAction
Dealt(g, cards) ==
    [g EXCEPT !.playerCards        = cards,
              !.mInfoSets          = [i \in Players |-> <<Uint8(cards[i])>>],
              !.turnIndex          = 0,
              !.currentPlayerIndex = 0,
              !.firstBetTurnIndex  = -1,
              !.playerBetNumber    = 0,
              !.gameOver           = FALSE]

Identity == [i \in 0 .. numCards - 1 |-> i]

\* One pass of the loop of Game.cpp:61-67 for index c1 with generator output w,
\* on sh = [segv, cards].  c2 < 0 indexes playerCards before its first element:
\* the access is outside the array, and ub names what the build makes of it, a
\* fault (ub.segv) or the int ub.val found there (the int written there is
\* outside the objects of the model).
ShuffleStep(sh, c1, w, ub) ==
    LET c2 == CRem(ToInt(w), c1 + 1)
    IN  IF sh.segv THEN sh
        ELSE IF c2 >= 0 THEN [sh EXCEPT !.cards = Swap(sh.cards, c1, c2)]
        ELSE IF ub.segv THEN [sh EXCEPT !.segv = TRUE]
        ELSE [sh EXCEPT !.cards[c1] = ub.val]

\* void Game::resetGame(bool skipChanceAction): w[1], w[2] are the generator
\* outputs the shuffle draws for c1 = 2 and c1 = 1, ub[1], ub[2] the outcomes of
\* an out-of-bounds swap at each.  The result is [segv, game].
resetGame(g, skipChanceAction, w, ub) ==
    IF ~skipChanceAction
    THEN [segv |-> FALSE, game |-> [g EXCEPT !.currentPlayerIndex = numPlayers + 1]]
    ELSE LET sh == ShuffleStep(ShuffleStep([segv |-> FALSE, cards |-> Identity],
                                           2, w[1], ub[1]),
                               1, w[2], ub[2])
         IN  IF sh.segv THEN [segv |-> TRUE, game |-> g]
             ELSE [segv |-> FALSE, game |-> Dealt(g, sh.cards)]

\* variant: the loop makes its first pass only
ChanceDeal_onePass(cards, c1, a) == Swap(cards, c1, a % (c1 + 1))

\* the deal of chance action a, Game.cpp:90-103
RECURSIVE ChanceDeal(_, _, _)
ChanceDeal(cards, c1, a) ==
    IF c1 <= 0 THEN cards
    ELSE ChanceDeal(Swap(cards, c1, a % (c1 + 1)), c1 - 1, a \div (c1 + 1))

\* variant: the first smallest entry
RECURSIVE MaxElement_min(_, _)
MaxElement_min(v, n) ==
    IF n = 1 THEN 0
    ELSE LET m == MaxElement_min(v, n - 1)
         IN  IF v[n - 1] < v[m] THEN n - 1 ELSE m

\* std::max_element over the first n entries: the first largest one
RECURSIVE MaxElement(_, _)
MaxElement(v, n) ==
    IF n = 1 THEN 0
    ELSE LET m == MaxElement(v, n - 1)
         IN  IF v[n - 1] > v[m] THEN n - 1 ELSE m

\* the payoffs of Game.cpp:187-216 (more than two bets, numPlayers > 2)
ManyBetsPayoff(g, infoSet0, turnIndex, playerBetNumber) ==
    LET bettors == {i \in Players :
                      \E k \in 0 .. turnIndex - 1 :
                          k % numPlayers = i /\ infoSet0[k + 2] = 1}
        card == [i \in Players |->
                    IF i \in bettors THEN g.playerCards[i] ELSE -1]
        winPlayer == MaxElement(card, numPlayers)
    IN  [i \in Players |->
            IF i \notin bettors THEN -1
            ELSE IF i = winPlayer
                 THEN 2 * (playerBetNumber - 1) + (numPlayers - playerBetNumber)
                 ELSE -2]

\* variant: a pass that answers a bet does not end the hand
takeAction_noFold(g, chooseAction) ==
    IF g.currentPlayerIndex = numPlayers + 1
    THEN Dealt([g EXCEPT !.chanceProb = Frac(1, ChanceActionNum)],
               ChanceDeal(Identity, numCards - 1, chooseAction))
    ELSE
    LET turnIndex == g.turnIndex + 1
        playerBetNumber == g.playerBetNumber + chooseAction
        mInfoSets == [i \in Players |-> Append(g.mInfoSets[i], Uint8(chooseAction))]
        firstBetTurnIndex ==
            IF g.firstBetTurnIndex = -1 /\ chooseAction = 1
            THEN turnIndex ELSE g.firstBetTurnIndex
        plays  == turnIndex
        player == plays % numPlayers
        terminalPass ==
            \/ FALSE
            \/ /\ turnIndex = numPlayers
               /\ firstBetTurnIndex = -1
               /\ mInfoSets[0][turnIndex + 1] = 0
        winPlayer == MaxElement(g.playerCards, numPlayers)
        g1 == [g EXCEPT !.turnIndex = turnIndex,
                        !.playerBetNumber = playerBetNumber,
                        !.mInfoSets = mInfoSets,
                        !.firstBetTurnIndex = firstBetTurnIndex,
                        !.currentPlayerIndex = player]
    IN  IF plays <= 1 THEN g1
        ELSE IF playerBetNumber = numPlayers
        THEN [g1 EXCEPT !.playerPayoff =
                            [i \in Players |->
                                IF i = winPlayer THEN 2 * (numPlayers - 1) ELSE -2],
                        !.gameOver = TRUE]
        ELSE IF ~terminalPass THEN g1
        ELSE IF playerBetNumber = 0
        THEN [g1 EXCEPT !.playerPayoff =
                            [i \in Players |->
                                IF i = winPlayer THEN numPlayers - 1 ELSE -1],
                        !.gameOver = TRUE]
        ELSE IF playerBetNumber = 1
        THEN [g1 EXCEPT !.playerPayoff =
                            [i \in Players |->
                                IF i = player THEN numPlayers - 1 ELSE -1],
                        !.gameOver = TRUE]
        ELSE IF playerBetNumber >= 2
        THEN [g1 EXCEPT !.playerPayoff =
                            ManyBetsPayoff(g, mInfoSets[0], turnIndex, playerBetNumber),
                        !.gameOver = TRUE]
        ELSE g1

\* void Game::takeAction(int chooseAction)
takeAction(g, chooseAction) ==
    IF g.currentPlayerIndex = numPlayers + 1
    THEN Dealt([g EXCEPT !.chanceProb = Frac(1, ChanceActionNum)],
               ChanceDeal(Identity, numCards - 1, chooseAction))
    ELSE
    LET turnIndex == g.turnIndex + 1
        playerBetNumber == g.playerBetNumber + chooseAction
        mInfoSets == [i \in Players |-> Append(g.mInfoSets[i], Uint8(chooseAction))]
        firstBetTurnIndex ==
            IF g.firstBetTurnIndex = -1 /\ chooseAction = 1
            THEN turnIndex ELSE g.firstBetTurnIndex
        plays  == turnIndex
        player == plays % numPlayers
        terminalPass ==
            \/ firstBetTurnIndex > 0 /\ turnIndex - firstBetTurnIndex = numPlayers - 1
            \/ /\ turnIndex = numPlayers
               /\ firstBetTurnIndex = -1
               /\ mInfoSets[0][turnIndex + 1] = 0
        winPlayer == MaxElement(g.playerCards, numPlayers)
        g1 == [g EXCEPT !.turnIndex = turnIndex,
                        !.playerBetNumber = playerBetNumber,
                        !.mInfoSets = mInfoSets,
                        !.firstBetTurnIndex = firstBetTurnIndex,
                        !.currentPlayerIndex = player]
    IN  IF plays <= 1 THEN g1
        ELSE IF playerBetNumber = numPlayers
        THEN [g1 EXCEPT !.playerPayoff =
                            [i \in Players |->
                                IF i = winPlayer THEN 2 * (numPlayers - 1) ELSE -2],
                        !.gameOver = TRUE]
        ELSE IF ~terminalPass THEN g1
        ELSE IF playerBetNumber = 0
        THEN [g1 EXCEPT !.playerPayoff =
                            [i \in Players |->
                                IF i = winPlayer THEN numPlayers - 1 ELSE -1],
                        !.gameOver = TRUE]
        ELSE IF playerBetNumber = 1
        THEN [g1 EXCEPT !.playerPayoff =
                            [i \in Players |->
                                IF i = player THEN numPlayers - 1 ELSE -1],
                        !.gameOver = TRUE]
        ELSE IF playerBetNumber >= 2
        THEN [g1 EXCEPT !.playerPayoff =
                            ManyBetsPayoff(g, mInfoSets[0], turnIndex, playerBetNumber),
                        !.gameOver = TRUE]
        ELSE g1

\* double Game::payoff(int playerIndex) const
payoff(g, playerIndex) == Dbl(g.playerPayoff[playerIndex])

\* Game::infoSetStr() reading the first player's row of mInfoSets
infoSetStr_firstRow(g) == g.mInfoSets[0]

\* std::string Game::infoSetStr() const
infoSetStr(g) == g.mInfoSets[g.currentPlayerIndex]

\* bool Game::isGameOver() const
isGameOver(g) == g.gameOver

\* bool Game::isChanceNode() const
isChanceNode(g) == g.currentPlayerIndex = numPlayers + 1

\* int Game::actionNum() const
gameActionNum(g) ==
    IF g.currentPlayerIndex = numPlayers + 1 THEN ChanceActionNum ELSE ActionNUM

\* int Game::currentPlayer() const
currentPlayer(g) == g.currentPlayerIndex

\* variant: every chance outcome has probability 1
chanceProbability_one(g) == One

\* double Game::chanceProbability() const
chanceProbability(g) == g.chanceProb

(***************************************************************************)
(* std::mt19937 and std::discrete_distribution                             *)
(*                                                                         *)
(* The k-th output of std::mt19937 is a function of the seed and of k.     *)
(* The library is not part of the repository: the model keeps that law     *)
(* with a small linear congruential generator whose state x (0 .. 65536)   *)
(* is widened to a 32-bit output.                                          *)
(***************************************************************************)
\* std::mt19937 randomGenerator(seed)
MtSeed(seed) == (seed * 7919 + 4242) % 65537

\* the generator's state after one call
MtNext(x) == (x * 75 + 74) % 65537

\* the output <<hi, lo>> of the call made in state x
MtWord(x) == <<x % 2, x * 32749>>

\* variant: the search stops at the first index whatever its weight
PickIndex_first(weights, A, i, target) == i

\* std::discrete_distribution<int>(weights, weights + A)(generator): the index i
\* with sum(weights[0 .. i-1]) <= U * sum(weights) < sum(weights[0 .. i]), U in
\* [0, 1) being the generator's variate, here the top 8 bits of the output w
RECURSIVE PickIndex(_, _, _, _)
PickIndex(weights, A, i, target) ==
    IF i >= A - 1 THEN A - 1
    ELSE IF RLt(target, SumTo(weights, i + 1)) THEN i
    ELSE PickIndex(weights, A, i + 1, target)

DiscreteDistribution(weights, A, w) ==
    LET U == Frac(w[1] * 128 + (w[2] \div 16777216), 256)
    IN  PickIndex(weights, A, 0, RMul(U, SumTo(weights, A)))

(***************************************************************************)
(* Persistence  (Node.hpp save/load, Trainer.cpp writeStrategyToBin)       *)
(* A strategy file is a map from info-set keys to std::vector<double>.     *)
(***************************************************************************)
\* template <class Archive> void Node::save(Archive &ar, unsigned) const
save(n) == [k \in 1 .. n.mActionNum |-> n.mAverageStrategy[k - 1]]

\* Node() followed by Node::load(Archive &ar, unsigned)
load(vec) ==
    [ mActionNum          |-> Uint8(Len(vec)),
      mRegretSum          |-> <<>>,
      mCurrentStrategy    |-> <<>>,
      mStrategySum        |-> <<>>,
      mAverageStrategy    |-> [a \in 0 .. Len(vec) - 1 |-> vec[a + 1]],
      alreadyCalculated   |-> TRUE,
      strategyNeedsUpdate |-> FALSE ]

\* ia >> map: every entry of the file loaded
loadMap(file) == [k \in DOMAIN file |-> load(file[k])]

\* oa << mNodeMap
saveMap(nodeMap) == [k \in DOMAIN nodeMap |-> save(nodeMap[k])]

NoFile  == [written |-> FALSE, map |-> <<>>]
EmptyMap == [k \in {} |-> 0]

(***************************************************************************)
(* Trainer::Trainer<Kuhn::Game>  (src/GRASP/Trainer/Trainer.cpp)           *)
(*                                                                         *)
(* A trainer t is a record of the members of the class, of the locals of   *)
(* train() (iterations, i, p, utils), of the call stack of the recursion   *)
(* in progress and of the strategy file written.  t.pc is                  *)
(*   "train"  in the loops of train(), before the body for (i, p),         *)
(*   "run"    inside a recursion,                                          *)
(*   "done"   after the final writeStrategyToBin(),                        *)
(*   "segv"   faulted in the shuffle of resetGame,                         *)
(*   "abort"  a failed assert (fixed player under external/outcome),       *)
(*   "throw"  std::out_of_range from mFixedStrategies[player].at(infoSet). *)
(* Every action is a relation between a trainer t and its successor tn.    *)
(***************************************************************************)
Modes == {"standard", "chance", "external", "outcome"}

\* Trainer::Trainer(mode, seed, strategyPaths) followed by train(iterations):
\* files[i] is the strategy file named by strategyPaths[i], NoFile for none
Trainer(mode, seed, files, iterations) ==
    [ mModeStr         |-> mode,
      seed             |-> seed,
      randomGenerator  |-> MtSeed(seed),
      mNodeTouchedCnt  |-> 0,
      mGame            |-> Game,
      mNodeMap         |-> EmptyMap,
      mFixedStrategies |-> [i \in Players |->
                              IF files[i].written THEN loadMap(files[i].map)
                              ELSE EmptyMap],
      mUpdate          |-> [i \in Players |-> ~files[i].written],
      iterations       |-> iterations,
      i                |-> 0,
      p                |-> 0,
      utils            |-> [i \in Players |-> <<Indeterminate, 1>>],
      pc               |-> "train",
      stack            |-> <<>>,
      ret              |-> <<>>,
      file             |-> NoFile ]

\* a call frame: the arguments, then the locals, of one of the four recursions
Frame(fn, game, playerIndex, pi, po, sampleProb) ==
    [ fn |-> fn, game |-> game, playerIndex |-> playerIndex,
      pi |-> pi, po |-> po, s |-> sampleProb,
      stage |-> "enter", kind |-> "none", infoSet |-> <<>>,
      a |-> 0, utils |-> <<>>, nodeUtil |-> Zero,
      chanceProbability |-> Zero, chooseAction |-> -1, probability |-> <<>> ]

Top(t)        == t.stack[Len(t.stack)]
Callers(t)    == SubSeq(t.stack, 1, Len(t.stack) - 1)
WithTop(t, f) == [t EXCEPT !.stack = Append(Callers(t), f)]
Push(t, f)    == [t EXCEPT !.stack = Append(t.stack, f)]
\* return val: the frame is popped and the caller finds val
Return(t, val) == [t EXCEPT !.stack = Callers(t), !.ret = val]
At(t, fn, stage) ==
    /\ t.pc = "run"
    /\ t.stack # <<>>
    /\ Top(t).fn = fn
    /\ Top(t).stage = stage

\* variant: a new table is made at every visit
GetOrCreate_fresh(nodeMap, infoSet, actions) ==
    (infoSet :> Node(actions)) @@ nodeMap

\* Node *node = mNodeMap[infoSet]; if (node == nullptr) { node = new Node(..) }
GetOrCreate(nodeMap, infoSet, actions) ==
    IF infoSet \in DOMAIN nodeMap THEN nodeMap
    ELSE (infoSet :> Node(actions)) @@ nodeMap

\* variant: the loop over mNodeMap is left out
UpdateAll_none(nodeMap) == nodeMap

\* for (auto &itr : mNodeMap) itr.second->updateStrategy();
UpdateAll(nodeMap) == [k \in DOMAIN nodeMap |-> updateStrategy(nodeMap[k])]

\* variant: the map is serialised without the printing loop
writeStrategyToBin_noPrint(t) ==
    [t EXCEPT !.file = [written |-> TRUE, map |-> saveMap(t.mNodeMap)]]

\* void Trainer::writeStrategyToBin(int iteration) const: the printing loop
\* calls averageStrategy() on every node, then the map is serialised
writeStrategyToBin(t) ==
    LET printed == [k \in DOMAIN t.mNodeMap |->
                       IF actionNum(t.mNodeMap[k]) > 0
                       THEN averageStrategy(t.mNodeMap[k]) ELSE t.mNodeMap[k]]
    IN  [t EXCEPT !.mNodeMap = printed,
                  !.file = [written |-> TRUE, map |-> saveMap(printed)]]

(*-------------------------- train() --------------------------------------*)
\* the loop over i ends: writeStrategyToBin()
TrainWrite(t, tn) ==
    /\ t.pc = "train"
    /\ t.i >= t.iterations
    /\ tn = [writeStrategyToBin(t) EXCEPT !.pc = "done"]

\* the loop over p ends: i % 10000000 is 0 only for i = 0 within the bounds
\* of the model, so the periodic write never happens
TrainNextIteration(t, tn) ==
    /\ t.pc = "train"
    /\ t.i < t.iterations
    /\ t.p >= numPlayers
    /\ tn = [t EXCEPT !.i = t.i + 1, !.p = 0]

\* if (!mUpdate[p]) continue;
TrainSkipFixed(t, tn) ==
    /\ t.pc = "train"
    /\ t.i < t.iterations
    /\ t.p < numPlayers
    /\ ~t.mUpdate[t.p]
    /\ tn = [t EXCEPT !.p = t.p + 1]

\* variant: the traversal starts at a hand that resetGame has dealt
TrainStandard_dealt(t, tn) ==
    /\ t.pc = "train"
    /\ t.i < t.iterations
    /\ t.p < numPlayers
    /\ t.mUpdate[t.p]
    /\ t.mModeStr = "standard"
    /\ \E ub1 \in UBOutcomes, ub2 \in UBOutcomes :
          LET x1 == t.randomGenerator
              x2 == MtNext(x1)
              r  == resetGame(t.mGame, TRUE, <<MtWord(x1), MtWord(x2)>>, <<ub1, ub2>>)
          IN  IF r.segv
              THEN tn = [t EXCEPT !.pc = "segv"]
              ELSE tn = [t EXCEPT !.mGame = r.game,
                                  !.randomGenerator = MtNext(x2),
                                  !.pc = "run",
                                  !.stack = <<Frame("CFR", r.game, t.p, One, One, One)>>]

\* mGame->resetGame(false); utils[p] = CFR(*mGame, p, 1.0, 1.0);
TrainStandard(t, tn) ==
    /\ t.pc = "train"
    /\ t.i < t.iterations
    /\ t.p < numPlayers
    /\ t.mUpdate[t.p]
    /\ t.mModeStr = "standard"
    /\ LET g == resetGame(t.mGame, FALSE, <<>>, <<>>).game
       IN  tn = [t EXCEPT !.mGame = g,
                          !.pc = "run",
                          !.stack = <<Frame("CFR", g, t.p, One, One, One)>>]

SamplingFn(mode) ==
    CASE mode = "chance"   -> "chanceSamplingCFR"
      [] mode = "external" -> "externalSamplingCFR"
      [] mode = "outcome"  -> "outcomeSamplingCFR"

\* mGame->resetGame(); utils[p] = <the recursion of the mode>(*mGame, p, ...)
TrainSampling(t, tn) ==
    /\ t.pc = "train"
    /\ t.i < t.iterations
    /\ t.p < numPlayers
    /\ t.mUpdate[t.p]
    /\ t.mModeStr \in {"chance", "external", "outcome"}
    /\ \E ub1 \in UBOutcomes, ub2 \in UBOutcomes :
          LET x1 == t.randomGenerator
              x2 == MtNext(x1)
              r  == resetGame(t.mGame, TRUE, <<MtWord(x1), MtWord(x2)>>, <<ub1, ub2>>)
          IN  IF r.segv
              THEN tn = [t EXCEPT !.pc = "segv"]
              ELSE tn = [t EXCEPT !.mGame = r.game,
                                  !.randomGenerator = MtNext(x2),
                                  !.pc = "run",
                                  !.stack = <<Frame(SamplingFn(t.mModeStr), r.game,
                                                    t.p, One, One, One)>>]

\* the recursion returns to train(): utils[p] is assigned and, in standard and
\* chance mode, every table is refreshed
TrainReturn(t, tn) ==
    /\ t.pc = "run"
    /\ t.stack = <<>>
    /\ tn = [t EXCEPT !.utils[t.p] = t.ret[1],
                      !.mNodeMap = IF t.mModeStr \in {"standard", "chance"}
                                   THEN UpdateAll(t.mNodeMap) ELSE t.mNodeMap,
                      !.ret = <<>>,
                      !.p = t.p + 1,
                      !.pc = "train"]

(*-------------------------- CFR ------------------------------------------*)
\* variant: a fixed player's node is treated as a learner's
CFR_Enter_noFixed(t, tn) ==
    /\ At(t, "CFR", "enter")
    /\ LET f  == Top(t)
           t1 == [t EXCEPT !.mNodeTouchedCnt = t.mNodeTouchedCnt + 1]
           infoSet == infoSetStr(f.game)
           player  == currentPlayer(f.game)
       IN  IF isGameOver(f.game)
           THEN tn = Return(t1, <<payoff(f.game, f.playerIndex)>>)
           ELSE IF isChanceNode(f.game)
           THEN tn = WithTop(t1, [f EXCEPT !.stage = "loop", !.kind = "chance"])
           ELSE tn = WithTop([t1 EXCEPT !.mNodeMap =
                                 GetOrCreate(t.mNodeMap, infoSet, gameActionNum(f.game))],
                             [f EXCEPT !.stage = "loop", !.kind = "node",
                                       !.infoSet = infoSet])

\* Trainer.cpp:387-431: up to the first loop
CFR_Enter(t, tn) ==
    /\ At(t, "CFR", "enter")
    /\ LET f  == Top(t)
           t1 == [t EXCEPT !.mNodeTouchedCnt = t.mNodeTouchedCnt + 1]
           infoSet == infoSetStr(f.game)
           player  == currentPlayer(f.game)
       IN  IF isGameOver(f.game)
           THEN tn = Return(t1, <<payoff(f.game, f.playerIndex)>>)
           ELSE IF isChanceNode(f.game)
           THEN tn = WithTop(t1, [f EXCEPT !.stage = "loop", !.kind = "chance"])
           ELSE IF ~t.mUpdate[player]
           THEN tn = WithTop(t1, [f EXCEPT !.stage = "loop", !.kind = "fixed",
                                           !.infoSet = infoSet])
           ELSE tn = WithTop([t1 EXCEPT !.mNodeMap =
                                 GetOrCreate(t.mNodeMap, infoSet, gameActionNum(f.game))],
                             [f EXCEPT !.stage = "loop", !.kind = "node",
                                       !.infoSet = infoSet])

\* one pass of a loop over the actions, up to the recursive call
CFR_Call(t, tn) ==
    /\ At(t, "CFR", "loop")
    /\ Top(t).a < gameActionNum(Top(t).game)
    /\ LET f       == Top(t)
           game_cp == takeAction(f.game, f.a)
           player  == currentPlayer(f.game)
       IN  CASE f.kind = "chance" ->
                  LET cp == chanceProbability(game_cp)
                  IN  tn = Push(WithTop(t, [f EXCEPT !.stage = "wait",
                                                     !.chanceProbability = cp]),
                                Frame("CFR", game_cp, f.playerIndex, f.pi, RMul(f.po, cp), One))
             [] f.kind = "fixed" ->
                  IF f.infoSet \notin DOMAIN t.mFixedStrategies[player]
                  THEN tn = [t EXCEPT !.pc = "throw"]
                  ELSE LET fixed == averageStrategy(t.mFixedStrategies[player][f.infoSet])
                           cp    == fixed.mAverageStrategy[f.a]
                           t1    == [t EXCEPT !.mFixedStrategies[player][f.infoSet] = fixed]
                       IN  tn = Push(WithTop(t1, [f EXCEPT !.stage = "wait",
                                                           !.chanceProbability = cp]),
                                     Frame("CFR", game_cp, f.playerIndex, f.pi, RMul(f.po, cp), One))
             [] f.kind = "node" ->
                  LET sigma == strategy(t.mNodeMap[f.infoSet])
                  IN  tn = Push(WithTop(t, [f EXCEPT !.stage = "wait"]),
                                IF player = f.playerIndex
                                THEN Frame("CFR", game_cp, f.playerIndex,
                                           RMul(f.pi, sigma[f.a]), f.po, One)
                                ELSE Frame("CFR", game_cp, f.playerIndex,
                                           f.pi, RMul(f.po, sigma[f.a]), One))

\* the recursive call has returned: the rest of the pass
CFR_Resume(t, tn) ==
    /\ At(t, "CFR", "wait")
    /\ LET f == Top(t)
           u == t.ret[1]
       IN  IF f.kind = "node"
           THEN LET sigma == strategy(t.mNodeMap[f.infoSet])
                IN  tn = WithTop([t EXCEPT !.ret = <<>>],
                                 [f EXCEPT !.utils = Append(f.utils, u),
                                           !.nodeUtil = RAdd(f.nodeUtil, RMul(sigma[f.a], u)),
                                           !.a = f.a + 1,
                                           !.stage = "loop"])
           ELSE tn = WithTop([t EXCEPT !.ret = <<>>],
                             [f EXCEPT !.nodeUtil = RAdd(f.nodeUtil,
                                                         RMul(f.chanceProbability, u)),
                                       !.a = f.a + 1,
                                       !.stage = "loop"])

\* variant: the regrets are added without the weight
RECURSIVE AddRegrets_noWeight(_, _, _, _, _)
AddRegrets_noWeight(node, utils, nodeUtil, weight, a) ==
    IF a = 0 THEN node
    ELSE LET n1     == AddRegrets_noWeight(node, utils, nodeUtil, weight, a - 1)
             regret == RSub(utils[a], nodeUtil)
         IN  regretSumSet(n1, a - 1, RAdd(regretSum(n1, a - 1), regret))

\* the regret and strategy-sum update of a learner's node, Trainer.cpp:453-460
\* (weight is po in CFR and chanceSamplingCFR)
RECURSIVE AddRegrets(_, _, _, _, _)
AddRegrets(node, utils, nodeUtil, weight, a) ==
    IF a = 0 THEN node
    ELSE LET n1     == AddRegrets(node, utils, nodeUtil, weight, a - 1)
             regret == RSub(utils[a], nodeUtil)
         IN  regretSumSet(n1, a - 1, RAdd(regretSum(n1, a - 1), RMul(weight, regret)))

\* variant: the strategy sum is weighted by -pi
LearnerUpdate_negWeight(node, f, A) ==
    LET n1 == AddRegrets(node, f.utils, f.nodeUtil, f.po, A)
    IN  strategySum(n1, strategy(n1), RNeg(f.pi))

LearnerUpdate(node, f, A) ==
    LET n1 == AddRegrets(node, f.utils, f.nodeUtil, f.po, A)
    IN  strategySum(n1, strategy(n1), f.pi)

\* after the loop: the learner's update, and the return
CFR_Finish(t, tn) ==
    /\ At(t, "CFR", "loop")
    /\ Top(t).a >= gameActionNum(Top(t).game)
    /\ LET f == Top(t)
           A == gameActionNum(f.game)
       IN  IF f.kind = "node" /\ currentPlayer(f.game) = f.playerIndex
           THEN tn = Return([t EXCEPT !.mNodeMap[f.infoSet] =
                                LearnerUpdate(t.mNodeMap[f.infoSet], f, A)],
                            <<f.nodeUtil>>)
           ELSE tn = Return(t, <<f.nodeUtil>>)

(*-------------------------- sampling -------------------------------------*)
\* dist(randomGenerator): generate_canonical<double, 53> calls the 32-bit
\* generator twice, and the second output holds the high bits of the variate
Draw(t, weights, A) ==
    LET x2 == MtNext(t.randomGenerator)
    IN  [action |-> DiscreteDistribution(weights, A, MtWord(x2)),
         randomGenerator |-> MtNext(x2)]

(*-------------------------- chanceSamplingCFR ----------------------------*)
\* Trainer.cpp:475-502: up to the loop, or up to the recursive call for a
\* player whose strategy is fixed
chanceSamplingCFR_Enter(t, tn) ==
    /\ At(t, "chanceSamplingCFR", "enter")
    /\ LET f  == Top(t)
           t1 == [t EXCEPT !.mNodeTouchedCnt = t.mNodeTouchedCnt + 1]
           infoSet == infoSetStr(f.game)
           A       == gameActionNum(f.game)
           player  == currentPlayer(f.game)
       IN  IF isGameOver(f.game)
           THEN tn = Return(t1, <<payoff(f.game, f.playerIndex)>>)
           ELSE IF ~t.mUpdate[player]
           THEN IF infoSet \notin DOMAIN t.mFixedStrategies[player]
                THEN tn = [t1 EXCEPT !.pc = "throw"]
                ELSE LET fixed == averageStrategy(t.mFixedStrategies[player][infoSet])
                         d     == Draw(t, fixed.mAverageStrategy, A)
                         t2    == [t1 EXCEPT !.mFixedStrategies[player][infoSet] = fixed,
                                             !.randomGenerator = d.randomGenerator]
                     IN  tn = Push(WithTop(t2, [f EXCEPT !.stage = "wait", !.kind = "fixed",
                                                         !.infoSet = infoSet,
                                                         !.chooseAction = d.action]),
                                   Frame("chanceSamplingCFR", takeAction(f.game, d.action),
                                         f.playerIndex, f.pi, f.po, One))
           ELSE tn = WithTop([t1 EXCEPT !.mNodeMap = GetOrCreate(t.mNodeMap, infoSet, A)],
                             [f EXCEPT !.stage = "loop", !.kind = "node",
                                       !.infoSet = infoSet])

chanceSamplingCFR_Call(t, tn) ==
    /\ At(t, "chanceSamplingCFR", "loop")
    /\ Top(t).a < gameActionNum(Top(t).game)
    /\ LET f       == Top(t)
           game_cp == takeAction(f.game, f.a)
           sigma   == strategy(t.mNodeMap[f.infoSet])
       IN  tn = Push(WithTop(t, [f EXCEPT !.stage = "wait"]),
                     IF currentPlayer(f.game) = f.playerIndex
                     THEN Frame("chanceSamplingCFR", game_cp, f.playerIndex,
                                RMul(f.pi, sigma[f.a]), f.po, One)
                     ELSE Frame("chanceSamplingCFR", game_cp, f.playerIndex,
                                f.pi, RMul(f.po, sigma[f.a]), One))

\* variant: the value found below a fixed player's node is weighted by the
\* probability of the action sampled
chanceSamplingCFR_Resume_weighted(t, tn) ==
    /\ At(t, "chanceSamplingCFR", "wait")
    /\ LET f == Top(t)
           u == t.ret[1]
       IN  IF f.kind = "fixed"
           THEN tn = Return(t, <<RMul(t.mFixedStrategies[currentPlayer(f.game)][f.infoSet]
                                          .mAverageStrategy[f.chooseAction], u)>>)
           ELSE LET sigma == strategy(t.mNodeMap[f.infoSet])
                IN  tn = WithTop([t EXCEPT !.ret = <<>>],
                                 [f EXCEPT !.utils = Append(f.utils, u),
                                           !.nodeUtil = RAdd(f.nodeUtil, RMul(sigma[f.a], u)),
                                           !.a = f.a + 1,
                                           !.stage = "loop"])

\* Trainer.cpp:492 and 513-518: the recursive call has returned
chanceSamplingCFR_Resume(t, tn) ==
    /\ At(t, "chanceSamplingCFR", "wait")
    /\ LET f == Top(t)
           u == t.ret[1]
       IN  IF f.kind = "fixed"
           THEN tn = Return(t, <<u>>)
           ELSE LET sigma == strategy(t.mNodeMap[f.infoSet])
                IN  tn = WithTop([t EXCEPT !.ret = <<>>],
                                 [f EXCEPT !.utils = Append(f.utils, u),
                                           !.nodeUtil = RAdd(f.nodeUtil, RMul(sigma[f.a], u)),
                                           !.a = f.a + 1,
                                           !.stage = "loop"])

chanceSamplingCFR_Finish(t, tn) ==
    /\ At(t, "chanceSamplingCFR", "loop")
    /\ Top(t).a >= gameActionNum(Top(t).game)
    /\ LET f == Top(t)
           A == gameActionNum(f.game)
       IN  IF currentPlayer(f.game) = f.playerIndex
           THEN tn = Return([t EXCEPT !.mNodeMap[f.infoSet] =
                                LearnerUpdate(t.mNodeMap[f.infoSet], f, A)],
                            <<f.nodeUtil>>)
           ELSE tn = Return(t, <<f.nodeUtil>>)

(*-------------------------- externalSamplingCFR --------------------------*)
\* variant: the assert is compiled out
externalSamplingCFR_Enter_noAssert(t, tn) ==
    /\ At(t, "externalSamplingCFR", "enter")
    /\ LET f  == Top(t)
           t1 == [t EXCEPT !.mNodeTouchedCnt = t.mNodeTouchedCnt + 1]
           infoSet == infoSetStr(f.game)
           A       == gameActionNum(f.game)
           player  == currentPlayer(f.game)
       IN  IF isGameOver(f.game)
           THEN tn = Return(t1, <<payoff(f.game, f.playerIndex)>>)
           ELSE LET m1   == GetOrCreate(t.mNodeMap, infoSet, A)
                    node == updateStrategy(m1[infoSet])
                    t2   == [t1 EXCEPT !.mNodeMap = [m1 EXCEPT ![infoSet] = node]]
                IN  IF player # f.playerIndex
                    THEN LET d == Draw(t, strategy(node), A)
                         IN  tn = Push(WithTop([t2 EXCEPT !.randomGenerator = d.randomGenerator],
                                               [f EXCEPT !.stage = "wait", !.kind = "opponent",
                                                         !.infoSet = infoSet,
                                                         !.chooseAction = d.action]),
                                       Frame("externalSamplingCFR", takeAction(f.game, d.action),
                                             f.playerIndex, One, One, One))
                    ELSE tn = WithTop(t2, [f EXCEPT !.stage = "loop", !.kind = "node",
                                                    !.infoSet = infoSet])

\* Trainer.cpp:544-576: up to the loop, or up to the recursive call at an
\* opponent's node
externalSamplingCFR_Enter(t, tn) ==
    /\ At(t, "externalSamplingCFR", "enter")
    /\ LET f  == Top(t)
           t1 == [t EXCEPT !.mNodeTouchedCnt = t.mNodeTouchedCnt + 1]
           infoSet == infoSetStr(f.game)
           A       == gameActionNum(f.game)
           player  == currentPlayer(f.game)
       IN  IF isGameOver(f.game)
           THEN tn = Return(t1, <<payoff(f.game, f.playerIndex)>>)
           ELSE IF ~t.mUpdate[player]
           THEN tn = [t1 EXCEPT !.pc = "abort"]
           ELSE LET m1   == GetOrCreate(t.mNodeMap, infoSet, A)
                    node == updateStrategy(m1[infoSet])
                    t2   == [t1 EXCEPT !.mNodeMap = [m1 EXCEPT ![infoSet] = node]]
                IN  IF player # f.playerIndex
                    THEN LET d == Draw(t, strategy(node), A)
                         IN  tn = Push(WithTop([t2 EXCEPT !.randomGenerator = d.randomGenerator],
                                               [f EXCEPT !.stage = "wait", !.kind = "opponent",
                                                         !.infoSet = infoSet,
                                                         !.chooseAction = d.action]),
                                       Frame("externalSamplingCFR", takeAction(f.game, d.action),
                                             f.playerIndex, One, One, One))
                    ELSE tn = WithTop(t2, [f EXCEPT !.stage = "loop", !.kind = "node",
                                                    !.infoSet = infoSet])

externalSamplingCFR_Call(t, tn) ==
    /\ At(t, "externalSamplingCFR", "loop")
    /\ Top(t).a < gameActionNum(Top(t).game)
    /\ LET f == Top(t)
       IN  tn = Push(WithTop(t, [f EXCEPT !.stage = "wait"]),
                     Frame("externalSamplingCFR", takeAction(f.game, f.a),
                           f.playerIndex, One, One, One))

externalSamplingCFR_Resume(t, tn) ==
    /\ At(t, "externalSamplingCFR", "wait")
    /\ LET f    == Top(t)
           u    == t.ret[1]
           node == t.mNodeMap[f.infoSet]
       IN  IF f.kind = "opponent"
           THEN tn = Return([t EXCEPT !.mNodeMap[f.infoSet] =
                                strategySum(node, strategy(node), One)],
                            <<u>>)
           ELSE tn = WithTop([t EXCEPT !.ret = <<>>],
                             [f EXCEPT !.utils = Append(f.utils, u),
                                       !.nodeUtil = RAdd(f.nodeUtil,
                                                         RMul(strategy(node)[f.a], u)),
                                       !.a = f.a + 1,
                                       !.stage = "loop"])

\* variant: the learner's node returns without the regret loop
externalSamplingCFR_Finish_noRegret(t, tn) ==
    /\ At(t, "externalSamplingCFR", "loop")
    /\ Top(t).a >= gameActionNum(Top(t).game)
    /\ tn = Return(t, <<Top(t).nodeUtil>>)

\* Trainer.cpp:588-595: the regret loop and the return of a learner's node
externalSamplingCFR_Finish(t, tn) ==
    /\ At(t, "externalSamplingCFR", "loop")
    /\ Top(t).a >= gameActionNum(Top(t).game)
    /\ LET f == Top(t)
       IN  tn = Return([t EXCEPT !.mNodeMap[f.infoSet] =
                           AddRegrets(t.mNodeMap[f.infoSet], f.utils, f.nodeUtil, One,
                                      gameActionNum(f.game))],
                       <<f.nodeUtil>>)

(*-------------------------- outcomeSamplingCFR ---------------------------*)
\* const double epsilon = 0.6;
epsilon == <<3, 5>>

\* Trainer.cpp:609-656: up to the recursive call
outcomeSamplingCFR_Enter(t, tn) ==
    /\ At(t, "outcomeSamplingCFR", "enter")
    /\ LET f  == Top(t)
           t1 == [t EXCEPT !.mNodeTouchedCnt = t.mNodeTouchedCnt + 1]
           infoSet == infoSetStr(f.game)
           A       == gameActionNum(f.game)
           player  == currentPlayer(f.game)
       IN  IF isGameOver(f.game)
           THEN tn = Return(t1, <<RDiv(payoff(f.game, f.playerIndex), f.s), One>>)
           ELSE IF ~t.mUpdate[player]
           THEN tn = [t1 EXCEPT !.pc = "abort"]
           ELSE LET m1    == GetOrCreate(t.mNodeMap, infoSet, A)
                    node  == updateStrategy(m1[infoSet])
                    sigma == strategy(node)
                    probability ==
                        [a \in 0 .. A - 1 |->
                            IF player = f.playerIndex
                            THEN RAdd(RDiv(epsilon, Dbl(A)),
                                      RMul(RSub(One, epsilon), sigma[a]))
                            ELSE sigma[a]]
                    d     == Draw(t, probability, A)
                    learner == player = f.playerIndex
                    newPi == RMul(f.pi, IF learner THEN sigma[d.action] ELSE One)
                    newPo == RMul(f.po, IF learner THEN One ELSE sigma[d.action])
                IN  tn = Push(WithTop([t1 EXCEPT !.mNodeMap = [m1 EXCEPT ![infoSet] = node],
                                                 !.randomGenerator = d.randomGenerator],
                                      [f EXCEPT !.stage = "wait", !.kind = "node",
                                                !.infoSet = infoSet,
                                                !.probability = probability,
                                                !.chooseAction = d.action]),
                              Frame("outcomeSamplingCFR", takeAction(f.game, d.action),
                                    f.playerIndex, newPi, newPo,
                                    RMul(f.s, probability[d.action])))

\* variant: the actions not sampled get the regret of the sampled one
RECURSIVE AddSampledRegrets_allAlike(_, _, _, _, _, _)
AddSampledRegrets_allAlike(node, W, pTail, sigmaChosen, chooseAction, a) ==
    IF a = 0 THEN node
    ELSE LET n1     == AddSampledRegrets_allAlike(node, W, pTail, sigmaChosen,
                                                  chooseAction, a - 1)
             regret == RMul(RMul(W, RSub(One, sigmaChosen)), pTail)
         IN  regretSumSet(n1, a - 1, RAdd(regretSum(n1, a - 1), regret))

\* the sampled regrets of Trainer.cpp:662-668
RECURSIVE AddSampledRegrets(_, _, _, _, _, _)
AddSampledRegrets(node, W, pTail, sigmaChosen, chooseAction, a) ==
    IF a = 0 THEN node
    ELSE LET n1     == AddSampledRegrets(node, W, pTail, sigmaChosen, chooseAction, a - 1)
             regret == IF a - 1 = chooseAction
                       THEN RMul(RMul(W, RSub(One, sigmaChosen)), pTail)
                       ELSE RMul(RMul(RNeg(W), pTail), sigmaChosen)
         IN  regretSumSet(n1, a - 1, RAdd(regretSum(n1, a - 1), regret))

\* Trainer.cpp:657-675: after the recursive call
outcomeSamplingCFR_Resume(t, tn) ==
    /\ At(t, "outcomeSamplingCFR", "wait")
    /\ LET f     == Top(t)
           util  == t.ret[1]
           pTail == t.ret[2]
           node  == t.mNodeMap[f.infoSet]
           sigma == strategy(node)
           W     == RMul(util, f.po)
           node1 == IF currentPlayer(f.game) = f.playerIndex
                    THEN AddSampledRegrets(node, W, pTail, sigma[f.chooseAction],
                                           f.chooseAction, gameActionNum(f.game))
                    ELSE strategySum(node, sigma, RDiv(f.po, f.s))
       IN  tn = Return([t EXCEPT !.mNodeMap[f.infoSet] = node1],
                       <<util, RMul(pTail, sigma[f.chooseAction])>>)

(***************************************************************************)
(* Evaluator: CFRAgent and the static functions of Trainer                 *)
(* (CFRAgent.cpp, Trainer.cpp:73-309).  strategies is the vector of the    *)
(* agents' strategy functions, here the vector of the agents themselves.   *)
(***************************************************************************)
\* The statements of a function body run one after the other.  TLC evaluates
\* the arguments of an operator when they are first used, which may be deep
\* inside the next call; Then(first, second) has first evaluated before
\* second, as the code has it, and is second.
Then(first, second) == IF first = first THEN second ELSE second

\* CFRAgent::CFRAgent(engine, path): ia >> mCurrentStrategy
CFRAgent(file) == loadMap(file.map)

\* const double *CFRAgent::strategy(const Type &game) const
CFRAgent_strategy(agent, game) ==
    averageStrategy(agent[infoSetStr(game)]).mAverageStrategy

\* std::vector<double> Trainer::CalculatePayoff(game, strategies); the second
\* operator is the state of nodeUtils after the first a passes of the loop
RECURSIVE CalculatePayoff(_, _)
RECURSIVE CalculatePayoff_loop(_, _, _)
CalculatePayoff(game, strategies) ==
    IF isGameOver(game)
    THEN [i \in Players |-> payoff(game, i)]
    ELSE CalculatePayoff_loop(game, strategies, gameActionNum(game))

CalculatePayoff_loop(game, strategies, a) ==
    IF a = 0 THEN [i \in Players |-> Zero]
    ELSE LET nodeUtils == CalculatePayoff_loop(game, strategies, a - 1)
             game_cp   == takeAction(game, a - 1)
             utils     == CalculatePayoff(game_cp, strategies)
             weight    == IF isChanceNode(game) THEN chanceProbability(game_cp)
                          ELSE CFRAgent_strategy(strategies[currentPlayer(game)], game)[a - 1]
         IN  Then(nodeUtils,
                  Then(utils, [i \in Players |-> RAdd(nodeUtils[i], RMul(weight, utils[i]))]))

\* variant: the entry takes the place of the entries of the key
PushBack_replace(infoSets, infoSet, entry) ==
    (infoSet :> <<entry>>) @@ infoSets

\* infoSets[infoSet].push_back(std::make_tuple(game, po))
PushBack(infoSets, infoSet, entry) ==
    IF infoSet \in DOMAIN infoSets
    THEN [infoSets EXCEPT ![infoSet] = Append(@, entry)]
    ELSE (infoSet :> <<entry>>) @@ infoSets

\* void Trainer::CreateInfoSets(game, playerIndex, strategies, po, infoSets):
\* the value is infoSets after the call; the second operator is infoSets
\* after the first a passes of the loop
RECURSIVE CreateInfoSets(_, _, _, _, _)
RECURSIVE CreateInfoSets_loop(_, _, _, _, _, _)
CreateInfoSets(game, playerIndex, strategies, po, infoSets) ==
    IF isGameOver(game) THEN infoSets
    ELSE IF isChanceNode(game)
    THEN CreateInfoSets_loop(game, playerIndex, strategies, po, infoSets,
                             gameActionNum(game))
    ELSE IF currentPlayer(game) = playerIndex
    THEN CreateInfoSets_loop(game, playerIndex, strategies, po,
                             PushBack(infoSets, infoSetStr(game), <<game, po>>),
                             gameActionNum(game))
    ELSE CreateInfoSets_loop(game, playerIndex, strategies, po, infoSets,
                             gameActionNum(game))

CreateInfoSets_loop(game, playerIndex, strategies, po, infoSets, a) ==
    IF a = 0 THEN infoSets
    ELSE LET before  == CreateInfoSets_loop(game, playerIndex, strategies, po,
                                            infoSets, a - 1)
             game_cp == takeAction(game, a - 1)
             weight  == IF isChanceNode(game) THEN chanceProbability(game_cp)
                        ELSE IF currentPlayer(game) = playerIndex THEN One
                        ELSE CFRAgent_strategy(strategies[currentPlayer(game)], game)[a - 1]
         IN  Then(before,
                  CreateInfoSets(game_cp, playerIndex, strategies, RMul(po, weight), before))

\* variant: the comparison of the loop is reversed
RECURSIVE BrAction_smallest(_, _)
BrAction_smallest(actionValues, n) ==
    IF n = 1 THEN 0
    ELSE LET brAction == BrAction_smallest(actionValues, n - 1)
         IN  IF RLt(actionValues[n - 1], actionValues[brAction]) THEN n - 1
             ELSE brAction

\* the loop of Trainer.cpp:270-277: the first action of the largest value
RECURSIVE BrAction(_, _)
BrAction(actionValues, n) ==
    IF n = 1 THEN 0
    ELSE LET brAction == BrAction(actionValues, n - 1)
         IN  IF RLt(actionValues[brAction], actionValues[n - 1]) THEN n - 1
             ELSE brAction

\* double Trainer::CalculateBestResponseValue(game, playerIndex, strategies,
\* bestResponseStrategies, po, infoSets): the value is [value, brs], brs being
\* bestResponseStrategies after the call.
\*   _sum:    the loops of a chance node and of another player's node: the
\*            state after the first a passes
\*   _values: the loops of Trainer.cpp:256-268 over the states i of the info
\*            set and the actions a, in one index n = i * actionNum + a
\*   _utils:  the loop of Trainer.cpp:283-288
RECURSIVE CalculateBestResponseValue(_, _, _, _, _, _)
RECURSIVE CalculateBestResponseValue_sum(_, _, _, _, _, _, _)
RECURSIVE CalculateBestResponseValue_values(_, _, _, _, _, _, _)
RECURSIVE CalculateBestResponseValue_utils(_, _, _, _, _, _, _)
CalculateBestResponseValue(game, playerIndex, strategies, brs, po, infoSets) ==
    IF isGameOver(game)
    THEN [value |-> payoff(game, playerIndex), brs |-> brs]
    ELSE IF isChanceNode(game) \/ currentPlayer(game) # playerIndex
    THEN CalculateBestResponseValue_sum(game, playerIndex, strategies, brs, po,
                                        infoSets, gameActionNum(game))
    ELSE LET infoSet   == infoSetStr(game)
             actions == gameActionNum(game)
             brs1 ==
                 IF infoSet \in DOMAIN brs THEN brs
                 ELSE LET r == CalculateBestResponseValue_values(
                                   infoSet, playerIndex, strategies, brs, actions,
                                   infoSets, Len(infoSets[infoSet]) * actions)
                          brAction == BrAction(r.actionValues, actions)
                      IN  Then(r, (infoSet :> [a \in 0 .. actions - 1 |->
                                                  IF a = brAction THEN One ELSE Zero])
                                      @@ r.brs)
             u == CalculateBestResponseValue_utils(game, playerIndex, strategies, brs1,
                                                   po, infoSets, actions)
         IN  Then(brs1,
                  Then(u, [value |-> SumTo([a \in 0 .. actions - 1 |->
                                               RMul(u.utils[a + 1], u.brs[infoSet][a])],
                                           actions),
                           brs   |-> u.brs]))

CalculateBestResponseValue_sum(game, playerIndex, strategies, brs, po, infoSets, a) ==
    IF a = 0 THEN [value |-> Zero, brs |-> brs]
    ELSE LET before  == CalculateBestResponseValue_sum(game, playerIndex, strategies,
                                                       brs, po, infoSets, a - 1)
             game_cp == takeAction(game, a - 1)
             weight  == IF isChanceNode(game) THEN chanceProbability(game_cp)
                        ELSE CFRAgent_strategy(strategies[currentPlayer(game)], game)[a - 1]
             r       == CalculateBestResponseValue(game_cp, playerIndex, strategies,
                                                   before.brs, RMul(po, weight), infoSets)
         IN  Then(before,
                  Then(r, [value |-> RAdd(before.value, RMul(weight, r.value)),
                           brs   |-> r.brs]))

\* variant: the values of the states of an info set are added up without
\* their reach
CalculateBestResponseValue_values_plain(infoSet, playerIndex, strategies, brs, actions, infoSets, n) ==
    IF n = 0 THEN [actionValues |-> [a \in 0 .. actions - 1 |-> Zero], brs |-> brs]
    ELSE LET before == CalculateBestResponseValue_values(infoSet, playerIndex, strategies,
                                                         brs, actions, infoSets, n - 1)
             i      == (n - 1) \div actions
             a      == (n - 1) % actions
             game_  == infoSets[infoSet][i + 1][1]
             po_    == infoSets[infoSet][i + 1][2]
             r      == CalculateBestResponseValue(takeAction(game_, a), playerIndex,
                                                  strategies, before.brs, po_, infoSets)
         IN  Then(before,
                  Then(r, [actionValues |-> [before.actionValues EXCEPT
                                                ![a] = RAdd(@, r.value)],
                           brs |-> r.brs]))

CalculateBestResponseValue_values(infoSet, playerIndex, strategies, brs, actions, infoSets, n) ==
    IF n = 0 THEN [actionValues |-> [a \in 0 .. actions - 1 |-> Zero], brs |-> brs]
    ELSE LET before == CalculateBestResponseValue_values(infoSet, playerIndex, strategies,
                                                         brs, actions, infoSets, n - 1)
             i      == (n - 1) \div actions
             a      == (n - 1) % actions
             game_  == infoSets[infoSet][i + 1][1]
             po_    == infoSets[infoSet][i + 1][2]
             r      == CalculateBestResponseValue(takeAction(game_, a), playerIndex,
                                                  strategies, before.brs, po_, infoSets)
         IN  Then(before,
                  Then(r, [actionValues |-> [before.actionValues EXCEPT
                                                ![a] = RAdd(@, RMul(po_, r.value))],
                           brs |-> r.brs]))

CalculateBestResponseValue_utils(game, playerIndex, strategies, brs, po, infoSets, a) ==
    IF a = 0 THEN [utils |-> <<>>, brs |-> brs]
    ELSE LET before == CalculateBestResponseValue_utils(game, playerIndex, strategies,
                                                        brs, po, infoSets, a - 1)
             r      == CalculateBestResponseValue(takeAction(game, a - 1), playerIndex,
                                                  strategies, before.brs, po, infoSets)
         IN  Then(before,
                  Then(r, [utils |-> Append(before.utils, r.value), brs |-> r.brs]))

\* double Trainer::CalculateExploitability(game, strategies): the value is
\* [exploitability, values, infoSets, brs], values[p] being what the call of
\* CalculateBestResponseValue for player p returned, infoSets the map the
\* first loop filled and brs[p] the bestResponseStrategies of player p when
\* its call returned
RECURSIVE CalculateExploitability_infoSets(_, _, _)
CalculateExploitability_infoSets(game, strategies, p) ==
    IF p = 0 THEN EmptyMap
    ELSE LET before == CalculateExploitability_infoSets(game, strategies, p - 1)
         IN  Then(before,
                  CreateInfoSets(resetGame(game, FALSE, <<>>, <<>>).game, p - 1,
                                 strategies, One, before))

\* (infoSets and the two results are bound as members of one-element sets:
\* that has each computed once, in the order of the code)
CalculateExploitability(game, strategies) ==
    CHOOSE res \in
        UNION { { [exploitability |-> SumTo([p \in Players |-> r[p + 1].value], numPlayers),
                   values   |-> [p \in Players |-> r[p + 1].value],
                   infoSets |-> infoSets,
                   brs      |-> [p \in Players |-> r[p + 1].brs]]
                  : r \in { << CalculateBestResponseValue(
                                  resetGame(game, FALSE, <<>>, <<>>).game, 0, strategies,
                                  EmptyMap, One, infoSets),
                              CalculateBestResponseValue(
                                  resetGame(game, FALSE, <<>>, <<>>).game, 1, strategies,
                                  EmptyMap, One, infoSets) >> } }
                : infoSets \in {CalculateExploitability_infoSets(game, strategies,
                                                                 numPlayers)} } : TRUE

(***************************************************************************)
(* Table harness: one Node driven through its public member functions in   *)
(* any order, the way the four recursions of Trainer.cpp call them.        *)
(***************************************************************************)
RegretDeltas    == {<<-1, 1>>, <<1, 2>>, <<1, 1>>}
StrategyWeights == {Zero, <<1, 2>>, One, <<2, 1>>}

OneHot(A, k) == [a \in 0 .. A - 1 |-> IF a = k THEN One ELSE Zero]

\* the harnesses that a specification leaves alone
TblIdle == tbl = Node(1) /\ tblLast = "idle" /\ tblPrevAvg = <<>> /\ tblOps = 0
GmIdle  ==
    /\ gm = Game /\ gmSegv = FALSE /\ gmLast = "idle"
    /\ gmHistory = <<>> /\ gmSeen = [seen |-> FALSE]
TrIdle  ==
    /\ tr = Trainer("standard", 0, [i \in Players |-> NoFile], 0)
    /\ tr0 = tr /\ tr2 = tr /\ runNo = 0
    /\ cli = [iteration |-> U64Of(0)]
EvIdle  == ev = [stage |-> "idle"]

TblInit ==
    /\ \E A \in 1 .. MaxActions : tbl = Node(A)
    /\ tblLast = "Node"
    /\ tblPrevAvg = <<>>
    /\ tblOps = 0
    /\ GmIdle
    /\ TrIdle
    /\ EvIdle

\* node->regretSum(a, node->regretSum(a) + regret), Trainer.cpp:456-457
TblAddRegret ==
    /\ tblOps < MaxTableOps
    /\ \E a \in 0 .. tbl.mActionNum - 1, delta \in RegretDeltas :
          tbl' = regretSumSet(tbl, a, RAdd(regretSum(tbl, a), delta))
    /\ tblLast' = "regretSum"
    /\ tblOps' = tblOps + 1
    /\ UNCHANGED <<tblPrevAvg, notTbl>>

\* node->updateStrategy()
TblUpdateStrategy ==
    /\ tblOps < MaxTableOps
    /\ tbl' = updateStrategy(tbl)
    /\ tblLast' = "updateStrategy"
    /\ tblOps' = tblOps + 1
    /\ UNCHANGED <<tblPrevAvg, notTbl>>

\* node->strategySum(strategy, weight); the callers pass node->strategy()
TblStrategySum ==
    /\ tblOps < MaxTableOps
    /\ \E w \in StrategyWeights,
          st \in {strategy(tbl), OneHot(tbl.mActionNum, 0)} :
          tbl' = strategySum(tbl, st, w)
    /\ tblLast' = "strategySum"
    /\ tblOps' = tblOps + 1
    /\ UNCHANGED <<tblPrevAvg, notTbl>>

\* node->averageStrategy()
TblAverageStrategy ==
    /\ tblOps < MaxTableOps
    /\ tbl' = averageStrategy(tbl)
    /\ tblLast' = "averageStrategy"
    /\ tblPrevAvg' = IF tblPrevAvg = <<>> THEN <<tbl'.mAverageStrategy>>
                     ELSE <<tblPrevAvg[Len(tblPrevAvg)], tbl'.mAverageStrategy>>
    /\ tblOps' = tblOps + 1
    /\ UNCHANGED notTbl

TblNext ==
    \/ TblAddRegret
    \/ TblUpdateStrategy
    \/ TblStrategySum
    \/ TblAverageStrategy

SpecNode == TblInit /\ [][TblNext]_vars

(***************************************************************************)
(* Game harness: one Kuhn::Game driven through resetGame and takeAction    *)
(* from every state a caller can hold, with the generator outputs and the  *)
(* outcomes of an out-of-bounds swap drawn from representative sets.       *)
(***************************************************************************)
GmInit ==
    /\ gm = Game /\ gmSegv = FALSE /\ gmLast = "Game"
    /\ gmHistory = <<>>
    /\ gmSeen = [seen |-> FALSE]
    /\ TblIdle
    /\ TrIdle
    /\ EvIdle

\* game.resetGame(false)
GmResetChance ==
    /\ ~gmSegv
    /\ gm' = resetGame(gm, FALSE, <<>>, <<>>).game
    /\ gmLast' = "resetGame(false)"
    /\ gmHistory' = <<>>
    /\ UNCHANGED <<gmSegv, gmSeen, notGm>>

\* the outcomes to draw for the swap of index c1 with generator output w: one
\* is enough where c2 = int(w) % (c1 + 1) is inside the array
UBFor(c1, w) ==
    IF CRem(ToInt(w), c1 + 1) < 0 THEN UBOutcomes
    ELSE {CHOOSE ub \in UBOutcomes : TRUE}

\* game.resetGame(true)
GmResetDeal ==
    /\ ~gmSegv
    /\ \E r \in UNION { { resetGame(gm, TRUE, w, <<ub1, ub2>>) :
                              ub1 \in UBFor(2, w[1]), ub2 \in UBFor(1, w[2]) } :
                            w \in RngWords \X RngWords } :
          gm' = r.game /\ gmSegv' = r.segv
    /\ gmLast' = "resetGame(true)"
    /\ gmHistory' = <<>>
    /\ UNCHANGED <<gmSeen, notGm>>

\* game.takeAction(a) where the callers call it: at a chance node, or at a
\* player's node of a hand that is not over
GmTakeAction ==
    /\ ~gmSegv
    /\ \/ isChanceNode(gm)
       \/ currentPlayer(gm) \in Players /\ ~isGameOver(gm)
    /\ \E a \in 0 .. gameActionNum(gm) - 1 :
          /\ gm' = takeAction(gm, a)
          /\ gmHistory' = IF isChanceNode(gm) THEN <<>> ELSE Append(gmHistory, a)
    /\ gmLast' = "takeAction"
    /\ UNCHANGED <<gmSegv, gmSeen, notGm>>

\* what a caller sees at a player's node of a hand that is not over, as
\* Trainer.cpp:424-429 does: the acting player, the key, the action count
GmObserve ==
    /\ ~gmSegv
    /\ currentPlayer(gm) \in Players /\ ~isGameOver(gm)
    /\ gmSeen' = [ seen      |-> TRUE,
                   player    |-> currentPlayer(gm),
                   cards     |-> [i \in Players |-> gm.playerCards[i]],
                   history   |-> gmHistory,
                   infoSet   |-> infoSetStr(gm),
                   actionNum |-> gameActionNum(gm) ]
    /\ UNCHANGED <<gm, gmSegv, gmLast, gmHistory, notGm>>

GmNext ==
    \/ GmResetChance
    \/ GmResetDeal
    \/ GmTakeAction
    \/ GmObserve

SpecGame == GmInit /\ [][GmNext]_vars


(***************************************************************************)
(* Training: main() constructs a Trainer and calls train(iterations).      *)
(***************************************************************************)
\* the info-set keys of a player: the card, then the actions taken so far
PlayerKeys(i) ==
    IF i = 0
    THEN {<<c>> : c \in 0 .. numCards - 1} \cup {<<c, PASS, BET>> : c \in 0 .. numCards - 1}
    ELSE {<<c, PASS>> : c \in 0 .. numCards - 1} \cup {<<c, BET>> : c \in 0 .. numCards - 1}
AllKeys == PlayerKeys(0) \cup PlayerKeys(1)

\* strategy files of earlier runs: of a run that met every info set and left
\* it uniform, of a run whose average never bets without the highest card,
\* and of a run of zero iterations (no key at all)
FileUniform == [written |-> TRUE, map |-> [k \in AllKeys |-> <<<<1, 2>>, <<1, 2>>>>]]
FileTight   == [written |-> TRUE,
                map |-> [k \in AllKeys |-> IF k[1] = numCards - 1
                                           THEN <<<<1, 4>>, <<3, 4>>>>
                                           ELSE <<One, Zero>>]]
FileEmpty   == [written |-> TRUE, map |-> EmptyMap]

\* the strategyPaths of the command line, as the files they name
StrategyPaths ==
    { [i \in Players |-> NoFile],
      [i \in Players |-> IF i = 0 THEN FileUniform ELSE NoFile],
      [i \in Players |-> IF i = 1 THEN FileTight ELSE NoFile],
      [i \in Players |-> IF i = 1 THEN FileEmpty ELSE NoFile],
      [i \in Players |-> IF i = 0 THEN FileUniform ELSE FileTight] }

\* the values of --iteration: 0 .. MaxIterations, and values of more than
\* 31 bits: 2^31, 2^32 and 2^32 + 1
IterationArgs ==
    {U64Of(n) : n \in 0 .. MaxIterations}
        \cup {U64(0, <<1, 0>>), U64(1, <<0, 0>>), U64(1, <<0, 1>>)}

\* Trainer trainer(algorithm, seed); trainer.train(int(p.get<uint64_t>("iteration")))
TrInit ==
    /\ \E mode \in Modes, seed \in 0 .. NumSeeds - 1, files \in StrategyPaths,
          iteration \in IterationArgs :
          /\ tr = Trainer(mode, seed, files, IntOfU64(iteration))
          /\ cli = [iteration |-> iteration]
    /\ tr0 = tr
    /\ tr2 = tr
    /\ runNo = 1
    /\ TblIdle
    /\ GmIdle
    /\ EvIdle

Others == <<tr0, tr2, runNo, cli, notTr>>

\* one step of train() or of the recursion it is in
Next ==
    \/ TrainWrite(tr, tr') /\ UNCHANGED Others
    \/ TrainNextIteration(tr, tr') /\ UNCHANGED Others
    \/ TrainSkipFixed(tr, tr') /\ UNCHANGED Others
    \/ TrainStandard(tr, tr') /\ UNCHANGED Others
    \/ TrainSampling(tr, tr') /\ UNCHANGED Others
    \/ TrainReturn(tr, tr') /\ UNCHANGED Others
    \/ CFR_Enter(tr, tr') /\ UNCHANGED Others
    \/ CFR_Call(tr, tr') /\ UNCHANGED Others
    \/ CFR_Resume(tr, tr') /\ UNCHANGED Others
    \/ CFR_Finish(tr, tr') /\ UNCHANGED Others
    \/ chanceSamplingCFR_Enter(tr, tr') /\ UNCHANGED Others
    \/ chanceSamplingCFR_Call(tr, tr') /\ UNCHANGED Others
    \/ chanceSamplingCFR_Resume(tr, tr') /\ UNCHANGED Others
    \/ chanceSamplingCFR_Finish(tr, tr') /\ UNCHANGED Others
    \/ externalSamplingCFR_Enter(tr, tr') /\ UNCHANGED Others
    \/ externalSamplingCFR_Call(tr, tr') /\ UNCHANGED Others
    \/ externalSamplingCFR_Resume(tr, tr') /\ UNCHANGED Others
    \/ externalSamplingCFR_Finish(tr, tr') /\ UNCHANGED Others
    \/ outcomeSamplingCFR_Enter(tr, tr') /\ UNCHANGED Others
    \/ outcomeSamplingCFR_Resume(tr, tr') /\ UNCHANGED Others

Spec == TrInit /\ [][Next]_vars

\* the program is run a second time with the same command line
SecondRun ==
    /\ runNo = 1
    /\ tr.pc \in {"done", "segv", "abort", "throw"}
    /\ tr2' = tr
    /\ tr' = tr0
    /\ runNo' = 2
    /\ UNCHANGED <<tr0, cli, notTr>>

NextTwoRuns == Next \/ SecondRun

SpecTwoRuns == TrInit /\ [][NextTwoRuns]_vars

\* the program is run a second time with the same command line but for
\* another --seed
OtherSeedRun ==
    /\ runNo = 1
    /\ tr.pc \in {"done", "segv", "abort", "throw"}
    /\ tr2' = tr
    /\ \E seed \in (0 .. NumSeeds - 1) \ {tr0.seed} :
          tr' = [tr0 EXCEPT !.seed = seed, !.randomGenerator = MtSeed(seed)]
    /\ runNo' = 2
    /\ UNCHANGED <<tr0, cli, notTr>>

NextTwoSeeds == Next \/ OtherSeedRun

SpecTwoSeeds == TrInit /\ [][NextTwoSeeds]_vars

(***************************************************************************)
(* Evaluation: main() of src/Game/main.cpp loads one agent per player and  *)
(* prints CalculatePayoff and CalculateExploitability.                     *)
(***************************************************************************)
UniformVec  == <<<<1, 2>>, <<1, 2>>>>
SkewedList  == << <<One, Zero>>, <<<<1, 4>>, <<3, 4>>>>, <<Zero, One>>,
                  <<<<3, 4>>, <<1, 4>>>>, <<<<1, 3>>, <<2, 3>>>> >>
SkewedVecs  == {SkewedList[n] : n \in 1 .. NumSkewed}

\* the strategy files of training runs that met every info set: uniform
\* except under the keys of D, which are two keys at most
StrategyFiles ==
    UNION { { [written |-> TRUE,
               map |-> [k \in AllKeys |-> IF k \in D THEN f[k] ELSE UniformVec]]
              : f \in [D -> SkewedVecs] }
            : D \in {D \in SUBSET AllKeys : \E k1 \in AllKeys, k2 \in AllKeys :
                                                D \subseteq {k1, k2}} }

\* both strategy-path-i name the file, as after a run that trained both players
EvInit ==
    /\ \E file \in StrategyFiles :
          ev = [ stage          |-> "loaded",
                 file           |-> file,
                 game           |-> Game,
                 cfrAgents      |-> [i \in Players |-> CFRAgent(file)],
                 payoffs        |-> <<>>,
                 values         |-> <<>>,
                 infoSets       |-> EmptyMap,
                 brs            |-> <<>>,
                 exploitability |-> Zero ]
    /\ TblIdle
    /\ GmIdle
    /\ TrIdle

\* game.resetGame(false); payoffs = CalculatePayoff(game, strategies);
EvCalculatePayoff ==
    /\ ev.stage = "loaded"
    /\ LET game == resetGame(ev.game, FALSE, <<>>, <<>>).game
       IN  ev' = [ev EXCEPT !.stage = "payoffs",
                            !.game = game,
                            !.payoffs = CalculatePayoff(game, ev.cfrAgents)]
    /\ UNCHANGED notEv

\* game.resetGame(false); exploitability = CalculateExploitability(game, strategies);
EvCalculateExploitability ==
    /\ ev.stage = "payoffs"
    /\ LET game == resetGame(ev.game, FALSE, <<>>, <<>>).game
           r    == CalculateExploitability(game, ev.cfrAgents)
       IN  ev' = [ev EXCEPT !.stage = "exploitability",
                            !.game = game,
                            !.values = r.values,
                            !.infoSets = r.infoSets,
                            !.brs = r.brs,
                            !.exploitability = r.exploitability]
    /\ UNCHANGED notEv

EvNext ==
    \/ EvCalculatePayoff
    \/ EvCalculateExploitability

SpecEvaluator == EvInit /\ [][EvNext]_vars

(***************************************************************************)
(* Claims on the table harness                                             *)
(***************************************************************************)
Clamp(x) == IF RPos(x) THEN x ELSE Zero

IsDistribution(v, A) ==
    /\ \A a \in 0 .. A - 1 : RLe(Zero, v[a])
    /\ SumTo(v, A) = One

\* C1: after updateStrategy, strategy()[a] = max(regretSum[a],0)/Z for every a
\* when Z = sum_a max(regretSum[a],0) is positive, and 1/A when Z is zero.
C1_RegretMatching ==
    tblLast = "updateStrategy" =>
        LET A == tbl.mActionNum
            Z == SumTo([a \in 0 .. A - 1 |-> Clamp(tbl.mRegretSum[a])], A)
        IN  \A a \in 0 .. A - 1 :
                IF RPos(Z)
                THEN RMul(strategy(tbl)[a], Z) = Clamp(tbl.mRegretSum[a])
                ELSE strategy(tbl)[a] = Frac(1, A)

\* a refresh of a table holding a negative and two different positive regrets
C1_Witness ==
    /\ tblLast = "updateStrategy"
    /\ tbl.mActionNum = 3
    /\ tbl.mRegretSum[0][1] < 0
    /\ RLt(Zero, tbl.mRegretSum[1])
    /\ RLt(tbl.mRegretSum[1], tbl.mRegretSum[2])

\* C2: currentStrategy is a probability distribution in every state of a
\* trained table, and uniform 1/A on a freshly constructed one.
C2_CurrentIsDistribution ==
    /\ IsDistribution(tbl.mCurrentStrategy, tbl.mActionNum)
    /\ tblLast = "Node" =>
          \A a \in 0 .. tbl.mActionNum - 1 :
              tbl.mCurrentStrategy[a] = Frac(1, tbl.mActionNum)

\* a non-uniform strategy that later regrets have made stale
C2_Witness ==
    /\ tblLast = "regretSum"
    /\ tbl.mActionNum = 3
    /\ tbl.mCurrentStrategy[0] = One
    /\ RLt(tbl.mRegretSum[0], tbl.mRegretSum[1])

\* C3: averageStrategy() returns strategySum[a]/sum(strategySum) when the sum
\* is positive and 1/A when it is zero, never an array cached before a later
\* accumulateStrategy, and the array sums to 1.
C3_AverageCoherent ==
    tblLast = "averageStrategy" =>
        LET A == tbl.mActionNum
            S == SumTo(tbl.mStrategySum, A)
        IN  /\ \A a \in 0 .. A - 1 :
                  IF RPos(S)
                  THEN RMul(tbl.mAverageStrategy[a], S) = tbl.mStrategySum[a]
                  ELSE tbl.mAverageStrategy[a] = Frac(1, A)
            /\ SumTo(tbl.mAverageStrategy, A) = One

\* averageStrategy() called again after an accumulateStrategy that changed it
C3_Witness ==
    /\ tblLast = "averageStrategy"
    /\ Len(tblPrevAvg) = 2
    /\ tblPrevAvg[1] # tblPrevAvg[2]
    /\ RPos(SumTo(tbl.mStrategySum, tbl.mActionNum))

(***************************************************************************)
(* Claims on the training runs                                             *)
(***************************************************************************)
Halted(t) == t.pc \in {"done", "segv", "abort", "throw"}

NonNegativeSums(t) ==
    \A k \in DOMAIN t.mNodeMap : \A a \in 0 .. t.mNodeMap[k].mActionNum - 1 :
        RLe(Zero, t.mNodeMap[k].mStrategySum[a])

NonNegativeWeights(t) ==
    \A n \in 1 .. Len(t.stack) :
        /\ RLe(Zero, t.stack[n].pi)
        /\ RLe(Zero, t.stack[n].po)
        /\ RPos(t.stack[n].s)

\* C4: in every mode every strategySum[a] is >= 0 in every state and no step
\* of training decreases it; the reach weights pi, po carried by the frames
\* are >= 0 and the sampling product s is > 0, so every weight handed to
\* strategySum (pi, 1.0, po / s) is non-negative.
C4_StrategySumMonotone ==
    [][ /\ NonNegativeSums(tr) /\ NonNegativeSums(tr')
        /\ NonNegativeWeights(tr) /\ NonNegativeWeights(tr')
        /\ \A k \in DOMAIN tr.mNodeMap :
              /\ k \in DOMAIN tr'.mNodeMap
              /\ \A a \in 0 .. tr.mNodeMap[k].mActionNum - 1 :
                    RLe(tr.mNodeMap[k].mStrategySum[a], tr'.mNodeMap[k].mStrategySum[a])
      ]_vars

\* outcome sampling has accumulated po / s at an opponent node in a second
\* iteration
C4_Witness ==
    /\ tr.mModeStr = "outcome"
    /\ tr.i >= 1
    /\ \E k \in DOMAIN tr.mNodeMap : \E a \in 0 .. tr.mNodeMap[k].mActionNum - 1 :
          RLt(One, tr.mNodeMap[k].mStrategySum[a])

NormalizedSum(n) ==
    LET total == SumTo(n.mStrategySum, n.mActionNum)
    IN  [a \in 0 .. n.mActionNum - 1 |->
            IF RPos(total) THEN RDiv(n.mStrategySum[a], total)
            ELSE Frac(1, n.mActionNum)]

\* C5: the file written by writeStrategyToBin, read back, has the keys of the
\* trainer's map, and under every key a table with the same action count
\* whose averageStrategy is the normalised strategySum of the trained table
\* (uniform when the sum is zero).
C5_RoundTrip ==
    tr.file.written =>
        LET loaded == loadMap(tr.file.map)
        IN  /\ DOMAIN loaded = DOMAIN tr.mNodeMap
            /\ \A k \in DOMAIN loaded :
                  /\ loaded[k].mActionNum = tr.mNodeMap[k].mActionNum
                  /\ averageStrategy(loaded[k]).mAverageStrategy
                        = NormalizedSum(tr.mNodeMap[k])

\* a file was written that holds a table whose average is not uniform
C5_Witness ==
    /\ tr.file.written
    /\ \E k \in DOMAIN tr.file.map : tr.file.map[k][1] # tr.file.map[k][2]

\* C6: the second run of the same command line ends as the first did, with
\* the same regretSum, strategySum and currentStrategy under every key and
\* the generator in the same state.
C6_Determinism ==
    (runNo = 2 /\ Halted(tr)) =>
        /\ tr.pc = tr2.pc
        /\ tr.mNodeMap = tr2.mNodeMap
        /\ tr.randomGenerator = tr2.randomGenerator

AtFixedPlayer(t) ==
    /\ t.pc = "run"
    /\ t.stack # <<>>
    /\ Top(t).fn \in {"externalSamplingCFR", "outcomeSamplingCFR"}
    /\ Top(t).stage = "enter"
    /\ ~isGameOver(Top(t).game)
    /\ ~t.mUpdate[currentPlayer(Top(t).game)]

\* C8: when externalSamplingCFR or outcomeSamplingCFR is entered at a decision
\* node of a player whose strategy is fixed, the run aborts there: the map
\* of tables is left as it was, no frame is pushed below the node, and an
\* aborted run takes no further step.
C8_FixedPlayerAborts ==
    [][ /\ AtFixedPlayer(tr) =>
              /\ tr'.pc = "abort"
              /\ tr'.mNodeMap = tr.mNodeMap
              /\ tr'.stack = tr.stack
        /\ tr.pc = "abort" => tr' = tr
      ]_vars

\* an outcome-sampling run aborted below the learner's first node
C8_Witness ==
    /\ tr.pc = "abort"
    /\ tr.mModeStr = "outcome"
    /\ Len(tr.stack) = 2
    /\ ~tr.mUpdate[currentPlayer(Top(tr).game)]

\* the player who acts at the info set of a key: the card, then one byte per
\* action taken before
KeyPlayer(k) == (Len(k) - 1) % numPlayers

\* C9: the tables loaded into mFixedStrategies are, in every state, the
\* tables the constructor loaded, and mNodeMap holds no key of a player
\* whose strategy is fixed.
C9_FixedReadOnly ==
    /\ tr.mFixedStrategies = tr0.mFixedStrategies
    /\ \A k \in DOMAIN tr.mNodeMap : tr.mUpdate[KeyPlayer(k)]

\* a chance-sampling run that sampled the fixed player's actions from its
\* table and trained the other player to the end
C9_Witness ==
    /\ tr.pc = "done"
    /\ tr.mModeStr = "chance"
    /\ ~tr.mUpdate[1]
    /\ tr.iterations >= 1
    /\ Cardinality(DOMAIN tr.mNodeMap) >= 2

(***************************************************************************)
(* Claims on the evaluation                                                *)
(***************************************************************************)
\* the terminal histories below game: for each the probability of the deal,
\* the payoffs and the decisions <<player, info set, action>> on the way
RECURSIVE LeavesFrom(_, _, _)
RECURSIVE LeavesFrom_actions(_, _, _, _)
LeavesFrom(game, chance, path) ==
    IF isGameOver(game)
    THEN << [chance |-> chance, path |-> path,
             payoff |-> [i \in Players |-> payoff(game, i)]] >>
    ELSE LeavesFrom_actions(game, chance, path, gameActionNum(game))

LeavesFrom_actions(game, chance, path, a) ==
    IF a = 0 THEN <<>>
    ELSE LET game_cp == takeAction(game, a - 1)
         IN  LeavesFrom_actions(game, chance, path, a - 1)
             \o (IF isChanceNode(game)
                 THEN LeavesFrom(game_cp, chanceProbability(game_cp), path)
                 ELSE LeavesFrom(game_cp, chance,
                                 Append(path, <<currentPlayer(game), infoSetStr(game), a - 1>>)))

Leaves == LeavesFrom(resetGame(Game, FALSE, <<>>, <<>>).game, One, <<>>)

RECURSIVE OthersReach(_, _, _, _)
OthersReach(path, p, map, n) ==
    IF n = 0 THEN One
    ELSE LET step   == path[n]
             before == OthersReach(path, p, map, n - 1)
         IN  Then(before,
                  RMul(before, IF step[1] = p THEN One ELSE map[step[2]][step[3] + 1]))

\* leaf l can happen when player p plays the deterministic strategy pure
Follows(l, p, pure) ==
    \A n \in 1 .. Len(l.path) : l.path[n][1] = p => pure[l.path[n][2]] = l.path[n][3]

RECURSIVE SumFollowing(_, _, _, _)
SumFollowing(w, p, pure, n) ==
    IF n = 0 THEN Zero
    ELSE LET before == SumFollowing(w, p, pure, n - 1)
         IN  Then(before,
                  RAdd(before, IF Follows(Leaves[n], p, pure) THEN w[n] ELSE Zero))

\* the largest expected payoff of p over its deterministic strategies, the
\* other player following the strategy file map
BestDeterministic(p, map) ==
    LET w == [n \in 1 .. Len(Leaves) |->
                 RMul(RMul(Leaves[n].chance,
                           OthersReach(Leaves[n].path, p, map, Len(Leaves[n].path))),
                      Leaves[n].payoff[p])]
        payoffs == { SumFollowing(w, p, pure, Len(Leaves)) :
                        pure \in [PlayerKeys(p) -> 0 .. ActionNUM - 1] }
    IN  Then(w, CHOOSE v \in payoffs : \A u \in payoffs : RLe(u, v))

\* C7: for every player p the value CalculateBestResponseValue returned from
\* the root is the largest expected payoff of p over its deterministic
\* strategies against the other player's strategy, and the exploitability
\* returned is the sum of these values over the players.
C7_BestResponse ==
    ev.stage = "exploitability" =>
        LET best == [p \in Players |-> BestDeterministic(p, ev.file.map)]
        IN  Then(best, /\ \A p \in Players : ev.values[p] = best[p]
                       /\ ev.exploitability = RAdd(best[0], best[1]))

\* an evaluation of a file that is not uniform, in which betting first with
\* the lowest card is never answered by a bet
C7_Witness ==
    /\ ev.stage = "exploitability"
    /\ ev.file.map[<<0, BET>>] = <<One, Zero>>
    /\ RPos(ev.exploitability)

(***************************************************************************)
(* Claims on the game harness                                              *)
(***************************************************************************)
\* C10: resetGame returns the game to a fresh root from any state: after
\* resetGame(false) isTerminal() is false, isChance() is true and actionCount()
\* is the number of chance outcomes; after resetGame(true) isTerminal() is
\* false, isChance() is false, currentPlayer() is 0 and the action history is
\* empty.
C10_ResetIsFreshRoot ==
    /\ gmLast = "resetGame(false)" =>
          /\ ~isGameOver(gm)
          /\ isChanceNode(gm)
          /\ gameActionNum(gm) = ChanceActionNum
    /\ gmLast = "resetGame(true)" /\ ~gmSegv =>
          /\ ~isGameOver(gm)
          /\ ~isChanceNode(gm)
          /\ currentPlayer(gm) = 0
          /\ gm.turnIndex = 0
          /\ Len(infoSetStr(gm)) = 1

\* C11: for two decision states of the game (a player to act, hand not over)
\* infoSetStr() is the same exactly when the acting player, that player's
\* private card and the actions taken since the deal are the same; two states
\* with the same key never differ in the acting player or in the action count.
C11_KeyIffIndistinguishable ==
    (gmSeen.seen /\ ~gmSegv /\ currentPlayer(gm) \in Players /\ ~isGameOver(gm)) =>
        LET same == /\ currentPlayer(gm) = gmSeen.player
                    /\ gm.playerCards[currentPlayer(gm)] = gmSeen.cards[gmSeen.player]
                    /\ gmHistory = gmSeen.history
        IN  /\ (infoSetStr(gm) = gmSeen.infoSet) <=> same
            /\ infoSetStr(gm) = gmSeen.infoSet =>
                  /\ currentPlayer(gm) = gmSeen.player
                  /\ gameActionNum(gm) = gmSeen.actionNum

\* two hands that differ in the other player's card, both at the first
\* player's second node, give the same key
C11_Witness ==
    /\ gmSeen.seen /\ ~gmSegv /\ ~isGameOver(gm)
    /\ gmLast = "takeAction"
    /\ gmHistory = <<PASS, BET>>
    /\ infoSetStr(gm) = gmSeen.infoSet
    /\ gm.playerCards[1] # gmSeen.cards[1]

\* C12: payoff(player) called at a player's node of a hand that is not over is
\* rejected: it returns no number.
C12_PayoffRejectedBeforeEnd ==
    (~gmSegv /\ currentPlayer(gm) \in Players /\ ~isGameOver(gm)) =>
        \A playerIndex \in Players : payoff(gm, playerIndex) \notin Int \X Int

(***************************************************************************)
(* Claims on the recursions of the training runs                           *)
(***************************************************************************)
\* the frame n of the stack is a node of the learner's own
OwnNode(t, n) ==
    /\ t.stack[n].kind = "node"
    /\ currentPlayer(t.stack[n].game) = t.stack[n].playerIndex

\* the probability of the action that frame n, waiting for its call to
\* return, took: of the deal at a chance node, of the strategy file loaded by
\* the constructor at a node of a player whose strategy is fixed, of the
\* table's strategy else
StepProbability(t, n) ==
    LET f == t.stack[n]
    IN  CASE f.kind = "chance" -> Frac(1, ChanceActionNum)
          [] f.kind = "fixed"  ->
                tr0.mFixedStrategies[currentPlayer(f.game)][f.infoSet].mAverageStrategy[f.a]
          [] OTHER -> t.mNodeMap[f.infoSet].mCurrentStrategy[f.a]

\* the product of the step probabilities of the frames 1 .. n: of the
\* learner's own nodes (own) or of all the other frames (~own)
RECURSIVE PathReach(_, _, _)
PathReach(t, n, own) ==
    IF n = 0 THEN One
    ELSE LET before == PathReach(t, n - 1, own)
         IN  Then(before,
                  IF OwnNode(t, n) = own THEN RMul(before, StepProbability(t, n))
                  ELSE before)

ReachWeightsExact(t) ==
    \A n \in 1 .. Len(t.stack) :
        /\ t.stack[n].pi = PathReach(t, n - 1, TRUE)
        /\ t.stack[n].po = PathReach(t, n - 1, FALSE)

\* the loop over the actions of a learner's node has ended
LearnerDone(t, fn) ==
    /\ At(t, fn, "loop")
    /\ Top(t).a >= gameActionNum(Top(t).game)
    /\ OwnNode(t, Len(t.stack))

\* sum_a sigma[a] * utils[a + 1]
ExpectedUtil(sigma, utils, A) == SumTo([a \in 0 .. A - 1 |-> RMul(sigma[a], utils[a + 1])], A)

RegretMatched(n) ==
    LET A == n.mActionNum
        Z == SumTo([a \in 0 .. A - 1 |-> Clamp(n.mRegretSum[a])], A)
    IN  \A a \in 0 .. A - 1 :
            IF RPos(Z) THEN RMul(n.mCurrentStrategy[a], Z) = Clamp(n.mRegretSum[a])
            ELSE n.mCurrentStrategy[a] = Frac(1, A)

\* C15: in standard and chance mode no step of a traversal changes the
\* currentStrategy of a table, whatever it does to its regretSum; the step that
\* returns from a learner's traversal to train() leaves every table with the
\* regret matching of its regretSum as currentStrategy, and so every table
\* has it whenever train() is about to start a traversal.
C15_BatchRefresh ==
    [][ tr.mModeStr \in {"standard", "chance"} =>
          /\ (tr.pc = "run" /\ tr.stack # <<>>) =>
                \A k \in DOMAIN tr.mNodeMap :
                    /\ k \in DOMAIN tr'.mNodeMap
                    /\ tr'.mNodeMap[k].mCurrentStrategy = tr.mNodeMap[k].mCurrentStrategy
          /\ (tr.pc = "run" /\ tr.stack = <<>>) =>
                /\ tr'.pc = "train"
                /\ DOMAIN tr'.mNodeMap = DOMAIN tr.mNodeMap
                /\ \A k \in DOMAIN tr'.mNodeMap :
                      /\ RegretMatched(tr'.mNodeMap[k])
                      /\ tr'.mNodeMap[k].mRegretSum = tr.mNodeMap[k].mRegretSum
          /\ tr.pc = "train" =>
                \A k \in DOMAIN tr.mNodeMap : RegretMatched(tr.mNodeMap[k])
      ]_vars

\* a second iteration of vanilla CFR is again at a node of the learner whose
\* table it has updated earlier in this traversal: the strategy it reads is
\* the one of the start of the traversal, not the regret matching of the
\* regretSum
C15_Witness ==
    /\ tr.mModeStr = "standard"
    /\ tr.i >= 1
    /\ At(tr, "CFR", "loop")
    /\ Top(tr).kind = "node"
    /\ Top(tr).a = 0
    /\ OwnNode(tr, Len(tr.stack))
    /\ ~RegretMatched(tr.mNodeMap[Top(tr).infoSet])

\* the deals of Kuhn poker: one card each, no card twice
AllDeals == {c \in [Players -> 0 .. numCards - 1] : \A i, j \in Players : i # j => c[i] # c[j]}

\* the hand of game g
Hand(g) == [i \in Players |-> g.playerCards[i]]

\* C16: in standard mode every traversal starts at the chance node, the
\* children of the root are the deals, each deal once and all of them before
\* the root returns, and the root adds chanceProbability() times the value of
\* each to its result, the probabilities adding up to 1; in chance, external
\* and outcome mode every traversal starts at the first player's node of a
\* hand that resetGame has dealt, and no node of the recursion is a chance
\* node.
C16_RootPerMode ==
    [][ (tr.pc = "run" /\ tr.stack # <<>>) =>
          LET root == tr.stack[1]
          IN  IF tr.mModeStr = "standard"
              THEN /\ isChanceNode(root.game) /\ ~isGameOver(root.game)
                   /\ root.a <= ChanceActionNum
                   /\ {Hand(takeAction(root.game, a)) : a \in 0 .. ChanceActionNum - 1}
                         = AllDeals
                   /\ Len(tr.stack) >= 2 =>
                         LET deal == tr.stack[2].game
                         IN  /\ root.a < ChanceActionNum
                             /\ deal = takeAction(root.game, root.a)
                             /\ tr.stack[2].po = chanceProbability(deal)
                             /\ RMul(Dbl(ChanceActionNum), chanceProbability(deal)) = One
                   /\ (Len(tr.stack) = 1 /\ root.stage = "wait") =>
                         LET deal == takeAction(root.game, root.a)
                         IN  /\ tr'.stack[1].a = root.a + 1
                             /\ tr'.stack[1].nodeUtil =
                                   RAdd(root.nodeUtil,
                                        RMul(chanceProbability(deal), tr.ret[1]))
                   /\ (Len(tr.stack) = 1 /\ tr'.stack = <<>>) =>
                         /\ root.a = ChanceActionNum
                         /\ tr'.ret = <<root.nodeUtil>>
              ELSE /\ \A n \in 1 .. Len(tr.stack) : ~isChanceNode(tr.stack[n].game)
                   /\ currentPlayer(root.game) = 0
                   /\ root.game.turnIndex = 0
                   /\ ~isGameOver(root.game)
                   /\ \A i \in Players :
                         root.game.mInfoSets[i] = <<Uint8(root.game.playerCards[i])>>
      ]_vars

\* the root of a second iteration of vanilla CFR has gone through all the
\* deals and is about to return their weighted sum
C16_Witness ==
    /\ tr.mModeStr = "standard"
    /\ tr.i >= 1
    /\ tr.pc = "run"
    /\ Len(tr.stack) = 1
    /\ tr.stack[1].a = ChanceActionNum
    /\ tr.stack[1].nodeUtil # Zero

\* C17: resetGame(true) returns, whatever the generator outputs, without an
\* access outside playerCards, and leaves in playerCards a permutation of
\* 0 .. numCards - 1.
C17_ShuffleInBounds ==
    gmLast = "resetGame(true)" =>
        /\ ~gmSegv
        /\ {gm.playerCards[i] : i \in 0 .. numCards - 1} = 0 .. numCards - 1

\* C18: in external sampling a visit of a node finds, after entry, the table
\* of its info set with the regret matching of its regretSum as
\* currentStrategy.  At a node of the learner the actions are explored in
\* order, each once, and the step that ends the node adds u[a] - u,
\* u = sum_a sigma[a] * u[a], to regretSum[a], leaves strategySum alone and
\* returns u.  At a node of another player one action with sigma[a] > 0 is
\* explored, and the step after its return adds sigma[a] to strategySum[a],
\* leaves regretSum alone and returns the utility the call returned.  No
\* other step changes a regretSum or a strategySum.
C18_ExternalSampling ==
    [][ (tr.mModeStr = "external" /\ tr.pc = "run" /\ tr.stack # <<>>) =>
          LET f == Top(tr)
              A == gameActionNum(f.game)
              atOpponent == f.stage = "wait" /\ f.kind = "opponent"
              atLearner  == LearnerDone(tr, "externalSamplingCFR")
          IN  /\ (f.stage = "enter" /\ ~isGameOver(f.game)
                                   /\ tr.mUpdate[currentPlayer(f.game)]) =>
                    LET k == infoSetStr(f.game)
                    IN  /\ k \in DOMAIN tr'.mNodeMap
                        /\ RegretMatched(tr'.mNodeMap[k])
                        /\ currentPlayer(f.game) # f.playerIndex =>
                              /\ Len(tr'.stack) = Len(tr.stack) + 1
                              /\ \E a \in 0 .. A - 1 :
                                    /\ RPos(tr'.mNodeMap[k].mCurrentStrategy[a])
                                    /\ Top(tr').game = takeAction(f.game, a)
              /\ (f.stage = "loop" /\ f.a < A) =>
                    /\ Len(f.utils) = f.a
                    /\ Len(tr'.stack) = Len(tr.stack) + 1
                    /\ Top(tr').game = takeAction(f.game, f.a)
              /\ atOpponent => tr'.ret = tr.ret /\ tr'.stack = Callers(tr)
              /\ atLearner =>
                    /\ Len(f.utils) = A
                    /\ tr'.stack = Callers(tr)
                    /\ tr'.ret = <<ExpectedUtil(tr.mNodeMap[f.infoSet].mCurrentStrategy,
                                                f.utils, A)>>
              /\ \A k \in DOMAIN tr.mNodeMap :
                    LET old == tr.mNodeMap[k]
                        new == tr'.mNodeMap[k]
                        u   == ExpectedUtil(old.mCurrentStrategy, f.utils, A)
                    IN  /\ k \in DOMAIN tr'.mNodeMap
                        /\ CASE atOpponent /\ k = f.infoSet ->
                                  /\ RegretMatched(old)
                                  /\ new.mRegretSum = old.mRegretSum
                                  /\ \A a \in 0 .. A - 1 :
                                        new.mStrategySum[a] =
                                            RAdd(old.mStrategySum[a], old.mCurrentStrategy[a])
                             [] atLearner /\ k = f.infoSet ->
                                  /\ RegretMatched(old)
                                  /\ new.mStrategySum = old.mStrategySum
                                  /\ \A a \in 0 .. A - 1 :
                                        new.mRegretSum[a] =
                                            RAdd(old.mRegretSum[a], RSub(f.utils[a + 1], u))
                             [] OTHER ->
                                  /\ new.mRegretSum = old.mRegretSum
                                  /\ new.mStrategySum = old.mStrategySum
      ]_vars

\* a second iteration of external sampling has sampled an opponent's action
\* from a strategy that is not uniform and accumulated that strategy
C18_Witness ==
    /\ tr.mModeStr = "external"
    /\ tr.i >= 1
    /\ \E k \in DOMAIN tr.mNodeMap :
          /\ tr.mNodeMap[k].mStrategySum[0] # tr.mNodeMap[k].mStrategySum[1]
          /\ tr.mNodeMap[k].mRegretSum[0] # Zero

\* the frame n of an outcome-sampling path: the actor's probability of the
\* action it sampled, and the probability it sampled it with
SampledSigma(t, n) ==
    t.mNodeMap[t.stack[n].infoSet].mCurrentStrategy[t.stack[n].chooseAction]

SamplingProbability(t, n) ==
    IF OwnNode(t, n)
    THEN RAdd(RDiv(Frac(3, 5), Dbl(gameActionNum(t.stack[n].game))),
              RMul(Frac(2, 5), SampledSigma(t, n)))
    ELSE SampledSigma(t, n)

\* pi_{-i} below the frames 1 .. n: the product of the other players'
\* probabilities of the sampled actions
RECURSIVE SampledOthersReach(_, _)
SampledOthersReach(t, n) ==
    IF n = 0 THEN One
    ELSE LET before == SampledOthersReach(t, n - 1)
         IN  Then(before, IF OwnNode(t, n) THEN before
                          ELSE RMul(before, SampledSigma(t, n)))

\* s below the frames 1 .. n: the product of the sampling probabilities
RECURSIVE SampleProduct(_, _)
SampleProduct(t, n) ==
    IF n = 0 THEN One
    ELSE LET before == SampleProduct(t, n - 1)
         IN  Then(before, RMul(before, SamplingProbability(t, n)))

C20_SamplingPositive ==
    tr.mModeStr = "outcome" =>
        \A n \in 1 .. Len(tr.stack) :
            LET f == tr.stack[n]
                A == gameActionNum(f.game)
            IN  /\ RPos(f.s)
                /\ f.stage = "wait" =>
                      /\ RPos(f.probability[f.chooseAction])
                      /\ IF OwnNode(tr, n)
                         THEN \A a \in 0 .. A - 1 :
                                  RLe(RDiv(Frac(3, 5), Dbl(A)), f.probability[a])
                         ELSE RPos(SampledSigma(tr, n))

\* a hand of outcome sampling has ended below a node of another player whose
\* strategy gives one of the two actions probability 0
C20_Witness ==
    /\ tr.mModeStr = "outcome"
    /\ tr.pc = "run"
    /\ tr.stack # <<>>
    /\ isGameOver(Top(tr).game)
    /\ RLt(Top(tr).s, One)
    /\ \E n \in 1 .. Len(tr.stack) - 1 :
          /\ ~OwnNode(tr, n)
          /\ \E a \in 0 .. 1 : tr.mNodeMap[tr.stack[n].infoSet].mCurrentStrategy[a] = Zero

\* a visit of chance sampling is entering a node of a player whose strategy
\* is fixed and whose file has the key
AtFixedNode(t) ==
    /\ t.mModeStr = "chance"
    /\ At(t, "chanceSamplingCFR", "enter")
    /\ ~isGameOver(Top(t).game)
    /\ ~t.mUpdate[currentPlayer(Top(t).game)]
    /\ infoSetStr(Top(t).game) \in DOMAIN t.mFixedStrategies[currentPlayer(Top(t).game)]

\* C21: chance sampling at a node of a player whose strategy is fixed makes
\* one recursive call, for an action to which the averageStrategy loaded for
\* the node's key gives a probability > 0, with pi and po as they are at the
\* node; when the call returns the node returns the value it returned, as it
\* is; no table of the store changes at the node.
C21_FixedActorSampled ==
    [][ /\ AtFixedNode(tr) =>
              LET f   == Top(tr)
                  avg == tr0.mFixedStrategies[currentPlayer(f.game)][infoSetStr(f.game)]
                            .mAverageStrategy
              IN  /\ tr'.pc = "run"
                  /\ Len(tr'.stack) = Len(tr.stack) + 1
                  /\ SubSeq(tr'.stack, 1, Len(tr.stack) - 1) = Callers(tr)
                  /\ tr'.stack[Len(tr.stack)].game = f.game
                  /\ tr'.stack[Len(tr.stack)].stage = "wait"
                  /\ Top(tr').stage = "enter"
                  /\ Top(tr').pi = f.pi
                  /\ Top(tr').po = f.po
                  /\ \E a \in 0 .. gameActionNum(f.game) - 1 :
                        /\ RPos(avg[a])
                        /\ Top(tr').game = takeAction(f.game, a)
                  /\ tr'.mNodeMap = tr.mNodeMap
        /\ (tr.mModeStr = "chance" /\ At(tr, "chanceSamplingCFR", "wait")
                                   /\ Top(tr).kind = "fixed") =>
              /\ tr'.stack = Callers(tr)
              /\ tr'.ret = tr.ret
              /\ tr'.mNodeMap = tr.mNodeMap
      ]_vars

C21_Witness ==
    /\ tr.mModeStr = "chance"
    /\ At(tr, "chanceSamplingCFR", "wait")
    /\ Top(tr).kind = "fixed"
    /\ tr.ret # <<>>
    /\ tr.ret[1] # Zero
    /\ Len(Top(tr).infoSet) = 3
    /\ \E a \in 0 .. 1 :
          tr0.mFixedStrategies[currentPlayer(Top(tr).game)][Top(tr).infoSet]
             .mAverageStrategy[a] = <<1, 2>>

(***************************************************************************)
(* Claims on the two phases of CalculateExploitability                     *)
(***************************************************************************)
\* the state after the actions of h, one after the other, from game
RECURSIVE Play(_, _)
Play(game, h) ==
    IF h = <<>> THEN game
    ELSE takeAction(Play(game, SubSeq(h, 1, Len(h) - 1)), h[Len(h)])

\* the sequences of at most numPlayers + 1 player actions
Histories == UNION { [1 .. n -> 0 .. ActionNUM - 1] : n \in 0 .. numPlayers + 1 }

\* the state of deal c (a chance action of the root) after history h
StateAt(c, h) == Play(takeAction(resetGame(Game, FALSE, <<>>, <<>>).game, c), h)

\* the histories after which player p has to act: no state on the way is
\* terminal (the deal does not matter for that, deal 0 is taken)
DecisionHistories(p) ==
    { h \in Histories :
        /\ \A n \in 0 .. Len(h) : ~isGameOver(StateAt(0, SubSeq(h, 1, n)))
        /\ currentPlayer(StateAt(0, h)) = p }

\* the probability of the deal times the probabilities that the players
\* other than p give, by the strategy file map, to their actions of h
RECURSIVE ReachOfOthers(_, _, _, _, _)
ReachOfOthers(c, h, p, map, n) ==
    IF n = 0 THEN Frac(1, ChanceActionNum)
    ELSE LET before == ReachOfOthers(c, h, p, map, n - 1)
             actor  == (n - 1) % numPlayers
             key    == <<StateAt(c, <<>>).playerCards[actor]>> \o SubSeq(h, 1, n - 1)
         IN  Then(before,
                  IF actor = p THEN before ELSE RMul(before, map[key][h[n] + 1]))

\* C22: when CreateInfoSets has run for every player from the root with
\* reach 1, infoSets holds, for every player p, every state in which p has to
\* act exactly once, under the key of that state, with the probability of
\* the deal times the probabilities the other player's strategy gives to its
\* actions on the way (p's own actions counting 1); every key of p has two
\* entries, one for each card the other player can hold.
C22_InfoSetsComplete ==
    ev.stage = "exploitability" =>
        /\ DOMAIN ev.infoSets = AllKeys
        /\ \A p \in Players : \A c \in 0 .. ChanceActionNum - 1 :
              \A h \in DecisionHistories(p) :
                 LET key == <<StateAt(c, h).playerCards[p]>> \o h
                     at  == {n \in 1 .. Len(ev.infoSets[key]) :
                                ev.infoSets[key][n][1] = StateAt(c, h)}
                 IN  /\ key \in PlayerKeys(p)
                     /\ Cardinality(at) = 1
                     /\ \A n \in at :
                           ev.infoSets[key][n][2] =
                               ReachOfOthers(c, h, p, ev.file.map, Len(h))
                     /\ \A k \in AllKeys \ {key} : \A n \in 1 .. Len(ev.infoSets[k]) :
                           ev.infoSets[k][n][1] # StateAt(c, h)
        /\ \A p \in Players : \A key \in PlayerKeys(p) :
              /\ Len(ev.infoSets[key]) = numCards - 1
              /\ ev.infoSets[key][1][1].playerCards[1 - p]
                    # ev.infoSets[key][2][1].playerCards[1 - p]
              /\ \A n \in 1 .. Len(ev.infoSets[key]) :
                    /\ ~isGameOver(ev.infoSets[key][n][1])
                    /\ ~isChanceNode(ev.infoSets[key][n][1])
                    /\ currentPlayer(ev.infoSets[key][n][1]) = p
                    /\ infoSetStr(ev.infoSets[key][n][1]) = key

\* an evaluation in which the two states of a key have different reaches,
\* one of them 0
C22_Witness ==
    /\ ev.stage = "exploitability"
    /\ \E key \in PlayerKeys(1) :
          /\ ev.infoSets[key][1][2] = Zero
          /\ RPos(ev.infoSets[key][2][2])
    /\ \E key \in PlayerKeys(0) : Len(key) = 3 /\ ev.infoSets[key][1][2] = <<1, 8>>

\* the action a one-hot vector names
BrOf(v) == CHOOSE a \in 0 .. ActionNUM - 1 : v[a] = One

\* the expected payoff of p from game (a state after the deal) when p plays
\* the actions brs names and the other player follows the strategy file map
RECURSIVE ValueUnder(_, _, _, _)
RECURSIVE ValueUnder_sum(_, _, _, _, _)
ValueUnder(game, p, brs, map) ==
    IF isGameOver(game) THEN payoff(game, p)
    ELSE IF currentPlayer(game) = p
    THEN ValueUnder(takeAction(game, BrOf(brs[infoSetStr(game)])), p, brs, map)
    ELSE ValueUnder_sum(game, p, brs, map, ActionNUM)

ValueUnder_sum(game, p, brs, map, a) ==
    IF a = 0 THEN Zero
    ELSE LET before == ValueUnder_sum(game, p, brs, map, a - 1)
             below  == ValueUnder(takeAction(game, a - 1), p, brs, map)
         IN  Then(before,
                  Then(below, RAdd(before, RMul(map[infoSetStr(game)][a], below))))

\* V[a] of an info set of p: over the entries of the key, the sum of the
\* reach times the value of p below action a
RECURSIVE AggregatedValue(_, _, _, _, _, _)
AggregatedValue(entries, a, p, brs, map, n) ==
    IF n = 0 THEN Zero
    ELSE LET before == AggregatedValue(entries, a, p, brs, map, n - 1)
             below  == ValueUnder(takeAction(entries[n][1], a), p, brs, map)
         IN  Then(before, Then(below, RAdd(before, RMul(entries[n][2], below))))

\* C23: when CalculateBestResponseValue has returned for player p,
\* bestResponseStrategies has every key of p and no other; the vector of a
\* key is 1 at one action and 0 at the others, the action being the first of
\* those with the largest V[a], the sum over the entries of the key of the
\* reach times the best-response value below action a; a later visit of any
\* state of the key leaves bestResponseStrategies as it is.
C23_BestResponseStrategy ==
    ev.stage = "exploitability" =>
        \A p \in Players :
            /\ DOMAIN ev.brs[p] = PlayerKeys(p)
            /\ \A key \in PlayerKeys(p) :
                  /\ DOMAIN ev.brs[p][key] = 0 .. ActionNUM - 1
                  /\ \E b \in 0 .. ActionNUM - 1 :
                        \A a \in 0 .. ActionNUM - 1 :
                            ev.brs[p][key][a] = IF a = b THEN One ELSE Zero
            /\ \A key \in PlayerKeys(p) :
                  LET V == [a \in 0 .. ActionNUM - 1 |->
                               AggregatedValue(ev.infoSets[key], a, p, ev.brs[p],
                                               ev.file.map, Len(ev.infoSets[key]))]
                      b == BrOf(ev.brs[p][key])
                  IN  Then(V, /\ \A a \in 0 .. ActionNUM - 1 : RLe(V[a], V[b])
                              /\ \A a \in 0 .. b - 1 : RLt(V[a], V[b]))
            /\ \A key \in PlayerKeys(p) : \A n \in 1 .. Len(ev.infoSets[key]) :
                  CalculateBestResponseValue(ev.infoSets[key][n][1], p, ev.cfrAgents,
                                             ev.brs[p], ev.infoSets[key][n][2],
                                             ev.infoSets).brs = ev.brs[p]

\* an evaluation in which the second player, holding the highest card, bets
\* after a pass and, after a bet that the first player never makes, finds
\* both actions of the same value and passes
C23_Witness ==
    /\ ev.stage = "exploitability"
    /\ ev.brs[1][<<numCards - 1, PASS>>][BET] = One
    /\ ev.infoSets[<<numCards - 1, BET>>][1][2] = Zero
    /\ ev.infoSets[<<numCards - 1, BET>>][2][2] = Zero
    /\ ev.brs[1][<<numCards - 1, BET>>][PASS] = One

(***************************************************************************)
(* Claims on the command line of the training program                      *)
(***************************************************************************)
\* C24: a run that has come to its end has made as many outer iterations
\* as the value of --iteration says.
C24_IterationsAsGiven ==
    tr.pc = "done" => cli.iteration = U64Of(tr.i)

(***************************************************************************)
(* Claims on mNodeMap                                                      *)
(***************************************************************************)
\* a recursion of any mode is entering a node at which a player acts
AtDecisionNode(t) ==
    /\ t.pc = "run"
    /\ t.stack # <<>>
    /\ Top(t).stage = "enter"
    /\ ~isGameOver(Top(t).game)
    /\ ~isChanceNode(Top(t).game)

\* C25: in every step of a training run every key of mNodeMap stays, with a
\* table of the same number of actions; a key appears only when a recursion
\* enters a node of a player that is trained, the key being that of the
\* node and the table having the node's number of actions; after that step
\* the key has a table; and entering a node changes no table that was there
\* except by updateStrategy.
C25_StoreOnlyGrows ==
    [][ /\ \A k \in DOMAIN tr.mNodeMap :
              /\ k \in DOMAIN tr'.mNodeMap
              /\ actionNum(tr'.mNodeMap[k]) = actionNum(tr.mNodeMap[k])
              /\ DOMAIN tr'.mNodeMap[k].mRegretSum = 0 .. actionNum(tr.mNodeMap[k]) - 1
              /\ AtDecisionNode(tr) =>
                    tr'.mNodeMap[k] \in {tr.mNodeMap[k], updateStrategy(tr.mNodeMap[k])}
        /\ \A k \in DOMAIN tr'.mNodeMap \ DOMAIN tr.mNodeMap :
              /\ AtDecisionNode(tr)
              /\ tr.mUpdate[currentPlayer(Top(tr).game)]
              /\ k = infoSetStr(Top(tr).game)
              /\ tr'.mNodeMap[k] = Node(gameActionNum(Top(tr).game))
        /\ (AtDecisionNode(tr) /\ tr.mUpdate[currentPlayer(Top(tr).game)]
                               /\ tr'.pc = "run") =>
              infoSetStr(Top(tr).game) \in DOMAIN tr'.mNodeMap
      ]_vars

\* a recursion comes back to a key whose table has regrets while other keys
\* have no table yet
C25_Witness ==
    /\ AtDecisionNode(tr)
    /\ infoSetStr(Top(tr).game) \in DOMAIN tr.mNodeMap
    /\ \E a \in 0 .. ActionNUM - 1 :
          regretSum(tr.mNodeMap[infoSetStr(Top(tr).game)], a) # Zero
    /\ Cardinality(DOMAIN tr.mNodeMap) \in 2 .. 11

(***************************************************************************)
(* Claims on the flag of Node::updateStrategy                              *)
(***************************************************************************)
\* C26: when updateStrategy has returned, strategyNeedsUpdate is false.
C26_RefreshClearsFlag ==
    tblLast = "updateStrategy" => ~tbl.strategyNeedsUpdate

(***************************************************************************)
(* Claims on the hands of Kuhn::Game                                       *)
(***************************************************************************)
\* C27: at the chance node actionNum() is 6; the states after the six
\* chance actions have six different deals, each a permutation of the cards
\* 0, 1, 2, and chanceProbability() 1/6; and the state a chance action
\* leaves is not over, is not a chance node, has player 0 to act with
\* the two actions, and has player 0's card alone as its key.
C27_ChanceNode ==
    /\ (~gmSegv /\ isChanceNode(gm)) =>
          /\ gameActionNum(gm) = 6
          /\ \A a \in 0 .. 5 :
                LET game_cp == takeAction(gm, a)
                IN  /\ {game_cp.playerCards[i] : i \in 0 .. numCards - 1} = 0 .. 2
                    /\ chanceProbability(game_cp) = <<1, 6>>
                    /\ \A b \in 0 .. 5 :
                          a # b => game_cp.playerCards # takeAction(gm, b).playerCards
                    /\ ~isGameOver(game_cp)
                    /\ ~isChanceNode(game_cp)
                    /\ currentPlayer(game_cp) = 0
                    /\ gameActionNum(game_cp) = ActionNUM
                    /\ game_cp.turnIndex = 0
                    /\ game_cp.playerBetNumber = 0
                    /\ infoSetStr(game_cp) = <<game_cp.playerCards[0]>>
    /\ (~gmSegv /\ gmLast = "takeAction" /\ gmHistory = <<>>) =>
          /\ {gm.playerCards[i] : i \in 0 .. numCards - 1} = 0 .. 2
          /\ chanceProbability(gm) = <<1, 6>>
          /\ ~isGameOver(gm)
          /\ ~isChanceNode(gm)
          /\ currentPlayer(gm) = 0
          /\ gameActionNum(gm) = ActionNUM
          /\ infoSetStr(gm) = <<gm.playerCards[0]>>

\* a chance action has just dealt a hand, after a hand that was played to
\* its end
C27_Witness ==
    /\ ~gmSegv
    /\ gmLast = "takeAction"
    /\ gmHistory = <<>>
    /\ ~isChanceNode(gm)
    /\ gm.playerCards[0] = numCards - 1
    /\ gm.playerPayoff[0] # 0

\* gm is in a hand: dealt, or some actions of the players later
InHand == ~gmSegv /\ currentPlayer(gm) \in Players

\* C28: in a hand, from any deal and by any actions, the hand is over after
\* two actions unless they are pass, bet, in which case it is over after the
\* third; it is not over before; while it is not over the players act in
\* the order 0, 1, 0; no hand has more than three actions.
C28_PlayTerminates ==
    InHand =>
        /\ Len(gmHistory) <= 3
        /\ isGameOver(gm) <=> \/ Len(gmHistory) = 2 /\ gmHistory # <<PASS, BET>>
                              \/ Len(gmHistory) = 3
        /\ Len(gmHistory) = 3 => SubSeq(gmHistory, 1, 2) = <<PASS, BET>>
        /\ ~isGameOver(gm) =>
              /\ currentPlayer(gm) = Len(gmHistory) % numPlayers
              /\ gameActionNum(gm) = ActionNUM
              /\ gm.turnIndex = Len(gmHistory)

\* a hand played to its end in three actions, the first player having been
\* seen at its second node
C28_Witness ==
    /\ InHand
    /\ isGameOver(gm)
    /\ gmHistory = <<PASS, BET, PASS>>
    /\ gmSeen.seen
    /\ gmSeen.history = <<PASS, BET>>
    /\ gmSeen.player = 0

\* the player of the higher card
HigherCard(g) == CHOOSE i \in Players : \A j \in Players : g.playerCards[j] <= g.playerCards[i]

\* the payoffs: w for player winner, -w for the other
Pays(g, winner, w) ==
    \A i \in Players : payoff(g, i) = IF i = winner THEN Dbl(w) ELSE Dbl(-w)

\* C29: when a hand is over the payoffs of the two players add up to 0 and
\* their cards differ;
\* after pass, pass the player of the higher card has 1 and the other -1;
\* after a bet answered by a pass the player who bet has 1 and the one who
\* passed -1, whatever the cards; after two bets the player of the higher
\* card has 2 and the other -2.
C29_ZeroSumPayoffs ==
    (InHand /\ isGameOver(gm)) =>
        /\ RAdd(payoff(gm, 0), payoff(gm, 1)) = Zero
        /\ gm.playerCards[0] # gm.playerCards[1]
        /\ gmHistory = <<PASS, PASS>> => Pays(gm, HigherCard(gm), 1)
        /\ gmHistory = <<BET, PASS>> => Pays(gm, 0, 1)
        /\ gmHistory = <<PASS, BET, PASS>> => Pays(gm, 1, 1)
        /\ gmHistory = <<BET, BET>> => Pays(gm, HigherCard(gm), 2)
        /\ gmHistory = <<PASS, BET, BET>> => Pays(gm, HigherCard(gm), 2)
        /\ gmHistory \in {<<PASS, PASS>>, <<BET, PASS>>, <<PASS, BET, PASS>>,
                          <<BET, BET>>, <<PASS, BET, BET>>}

\* a hand in which the second player, with the lower card, has bet after a
\* pass and the first player has passed again
C29_Witness ==
    /\ InHand
    /\ isGameOver(gm)
    /\ gmHistory = <<PASS, BET, PASS>>
    /\ gm.playerCards[0] = numCards - 1
    /\ payoff(gm, 1) = One

(***************************************************************************)
(* Claims on runs with different seeds                                     *)
(***************************************************************************)
\* C30: a run of standard mode in which every player is trained leaves the
\* generator as the seed made it, in every state; and when two such runs
\* of the same number of iterations but different seeds are over, they have
\* the same keys and under every key the same regretSum, strategySum and
\* current strategy.
C30_StandardIgnoresSeed ==
    (tr.mModeStr = "standard" /\ \A i \in Players : tr.mUpdate[i]) =>
        /\ tr.randomGenerator = MtSeed(tr.seed)
        /\ (runNo = 2 /\ Halted(tr)) =>
              /\ tr.seed # tr2.seed
              /\ tr.iterations = tr2.iterations
              /\ tr.pc = "done"
              /\ tr2.pc = "done"
              /\ DOMAIN tr.mNodeMap = DOMAIN tr2.mNodeMap
              /\ \A k \in DOMAIN tr.mNodeMap :
                    /\ tr.mNodeMap[k].mRegretSum = tr2.mNodeMap[k].mRegretSum
                    /\ tr.mNodeMap[k].mStrategySum = tr2.mNodeMap[k].mStrategySum
                    /\ strategy(tr.mNodeMap[k]) = strategy(tr2.mNodeMap[k])
              /\ tr.file = tr2.file

\* two runs of standard mode with different seeds are over, after iterations
\* that left regrets
C30_Witness ==
    /\ runNo = 2
    /\ tr.pc = "done"
    /\ tr.mModeStr = "standard"
    /\ \A i \in Players : tr.mUpdate[i]
    /\ tr.iterations >= 2
    /\ tr.seed # tr2.seed
    /\ tr.randomGenerator # tr2.randomGenerator
    /\ \E k \in DOMAIN tr.mNodeMap : regretSum(tr.mNodeMap[k], 0) # Zero

====
